---- MODULE Spec2Model ----
(***************************************************************************)
(* filemaker-lib: a client of the FileMaker Data API (src/src/lib.rs).     *)
(*                                                                         *)
(* The model has two sides.  The client side is the Filemaker struct and   *)
(* its methods, one action per call and one per resumption after an        *)
(* .await on the network.  The upstream side is the FileMaker server and   *)
(* the other clients of the same table: it answers the request that is in  *)
(* flight with any of the answers a server can give, and changes the table *)
(* and the set of live sessions.                                           *)
(*                                                                         *)
(* JSON values (serde_json::Value) are tagged records [t, v]; strings are  *)
(* sequences of one-character strings so that parsing and prefix tests are *)
(* computed and not assumed.                                               *)
(***************************************************************************)
EXTENDS Integers, Sequences, FiniteSets, TLC

\* ------------------------------------------------------------------ bounds

\* The most records the upstream table holds.
MaxRows == 3
\* The longest database or layout name tried in the naming specification.
MaxNameLen == 2
MaxList == 2

\* ------------------------------------------------------------ JSON values

Null == [t |-> "null", v |-> <<>>]
JBool(b) == [t |-> "bool", v |-> b]
Num(n) == [t |-> "num", v |-> n]
Str(s) == [t |-> "str", v |-> s]
Arr(s) == [t |-> "arr", v |-> s]
Obj(f) == [t |-> "obj", v |-> f]
EmptyObj == Obj(<<>>)

\* Option<T>: None is the empty sequence, Some(x) the one-element sequence.
None == <<>>
Some(x) == <<x>>
IsSome(o) == o # <<>>
Unwrap(o) == o[1]

\* Value::get(key): the member of an object, None for a missing key or a
\* value that is no object.
Get(o, key) ==
    IF IsSome(o) /\ Unwrap(o).t = "obj" /\ key \in DOMAIN Unwrap(o).v
    THEN Some(Unwrap(o).v[key])
    ELSE None

\* Value::as_str, as_array, as_u64 behind Option::and_then.
AsStr(o) == IF IsSome(o) /\ Unwrap(o).t = "str" THEN Some(Unwrap(o).v) ELSE None
AsArray(o) == IF IsSome(o) /\ Unwrap(o).t = "arr" THEN Some(Unwrap(o).v) ELSE None
AsU64(o) ==
    IF IsSome(o) /\ Unwrap(o).t = "num" /\ Unwrap(o).v >= 0
    THEN Some(Unwrap(o).v)
    ELSE None
IsObject(j) == j.t = "obj"

\* ---------------------------------------------------------------- strings

DigitChars == <<"0", "1", "2", "3", "4", "5", "6", "7", "8", "9">>

DigitValue(c) == (CHOOSE i \in 1..10 : DigitChars[i] = c) - 1
IsDigit(c) == \E i \in 1..10 : DigitChars[i] = c

\* u64's Display: the decimal digits of n.
RECURSIVE U64ToString(_)
U64ToString(n) ==
    IF n < 10 THEN <<DigitChars[n + 1]>>
    ELSE U64ToString(n \div 10) \o <<DigitChars[(n % 10) + 1]>>

RECURSIVE DigitsValue(_, _)
DigitsValue(s, acc) ==
    IF s = <<>> THEN acc
    ELSE DigitsValue(Tail(s), acc * 10 + DigitValue(Head(s)))

\* str::parse::<u64>: an optional leading '+', then one or more decimal
\* digits and nothing else; None stands for Err.
ParseU64(s) ==
    LET digits == IF s # <<>> /\ Head(s) = "+" THEN Tail(s) ELSE s
    IN  IF digits # <<>> /\ \A i \in 1..Len(digits) : IsDigit(digits[i])
        THEN Some(DigitsValue(digits, 0))
        ELSE None

\* str::replace(" ", "%20").
RECURSIVE ReplaceSpaces(_)
ReplaceSpaces(s) ==
    IF s = <<>> THEN <<>>
    ELSE (IF Head(s) = " " THEN <<"%", "2", "0">> ELSE <<Head(s)>>)
         \o ReplaceSpaces(Tail(s))

encode_parameter(parameter) == ReplaceSpaces(parameter)

\* The characters of field names, in byte order.
Alphabet == <<"_", "a", "e", "g", "l", "m", "n", "o", "t">>

\* str::starts_with.
StartsWith(s, prefix) ==
    /\ Len(s) >= Len(prefix)
    /\ \A i \in 1..Len(prefix) : s[i] = prefix[i]

\* ------------------------------------------------- inputs and environment

\* The value of FM_URL, as the examples set it.
FmUrl == "https://fm.example.com/fmi/data/vLatest"

\* The database and layout names given to the constructor and the static
\* calls.
Databases == {<<"m", "y", " ", "d", "b">>}
Tables == {<<"t", " ", "1">>}

\* The values FM_URL takes: the examples' value, and unset, which
\* unwrap_or_default reads as the empty string.
FmUrls == {FmUrl, ""}

\* Names with spaces and URL-reserved characters, up to MaxNameLen long.
NameChars == {"a", " ", "/", "?", "#", "%", "&"}
RECURSIVE NamesOfLen(_)
NamesOfLen(n) ==
    IF n = 0 THEN {<<>>}
    ELSE {Append(s, c) : s \in NamesOfLen(n - 1), c \in NameChars}
Names == UNION {NamesOfLen(n) : n \in 1..MaxNameLen}
\* The constructor's arguments: one of the two names varies.
NamePairs ==
    {<<d, t>> : d \in Names, t \in Tables} \cup {<<d, t>> : d \in Databases, t \in Names}

HandleIds == {"h1", "h2"}

\* Session tokens the upstream hands out, and a string that is no token of
\* any session.
Tokens == {<<"t", "A">>, <<"t", "B">>}
NoToken == <<"t", "X">>

\* base64 STANDARD of "user:pw", the credentials every call here is given.
BasicCredential == <<"d", "X", "N", "l", "c", "j", "p", "w", "d", "w", "=", "=">>
BasicPrefix == <<"B", "a", "s", "i", "c", " ">>
BearerPrefix == <<"B", "e", "a", "r", "e", "r", " ">>

\* format!("Basic {}", base64(username:password))
BasicHeader == BasicPrefix \o BasicCredential
\* format!("Bearer {}", token)
BearerHeader(token) == BearerPrefix \o token

\* The records the upstream table can hold.  The first two are well formed;
\* the third has a recordId that is no decimal number, the fourth one that
\* is no string.
WellFormedRecord(k) ==
    Obj([recordId |-> Str(U64ToString(k)),
         fieldData |-> Obj([name |-> Str(U64ToString(k)), g_total |-> Num(k)])])
UnparseableRecord == Obj([recordId |-> Str(<<"x">>), fieldData |-> EmptyObj])
NonStringRecord == Obj([recordId |-> Num(3), fieldData |-> EmptyObj])
ServerIds == {1, 2}
\* The upstream lists the records of the table in this order.
PoolOrder ==
    <<UnparseableRecord, WellFormedRecord(1), NonStringRecord, WellFormedRecord(2)>>
RecordPool == {PoolOrder[i] : i \in 1..Len(PoolOrder)}

\* The characters of the field names that occur in the pool's fieldData.
FieldNameChars(k) ==
    CASE k = "name" -> <<"n", "a", "m", "e">>
      [] k = "g_total" -> <<"g", "_", "t", "o", "t", "a", "l">>
      [] k = "g" -> <<"g">>
      [] k = "g_" -> <<"g", "_">>
      [] k = "ag_" -> <<"a", "g", "_">>
      [] OTHER -> <<>>

\* --------------------------------------------------------------- requests

\* A URL built by format!: FM_URL at the moment of the call, the route (the
\* literal path segments) and the values spliced into it.
Url(base, route, database, table, id, range) ==
    [base |-> base, route |-> route, database |-> database, table |-> table,
     id |-> id, range |-> range]

\* The two HTTP clients the library builds: the one of a handle, which
\* accepts invalid certificates, and Client::new() of the static calls.
HandleClient == "danger_accept_invalid_certs"
DefaultClient == "default"

Request(client, method, url, auth, body) ==
    [client |-> client, method |-> method, url |-> url, auth |-> auth, body |-> body]

\* Results: anyhow::Result<T> with T rendered as a JSON value.
Ok(v) == [ok |-> TRUE, val |-> v, err |-> ""]
Err(e) == [ok |-> FALSE, val |-> Null, err |-> e]

\* What comes back for a request: the send failed, or a response arrived
\* whose body is or is not JSON.
SendError == [kind |-> "send_error", status |-> 0, body |-> Null]
NotJson(st) == [kind |-> "not_json", status |-> st, body |-> Null]
Json(st, body) == [kind |-> "json", status |-> st, body |-> body]

\* ------------------------------------------------------ the client, pure

SessionsUrl(base, database) ==
    Url(base, "sessions", encode_parameter(database), None, None, None)

\* get_session_token up to its .await: the POST to the sessions endpoint.
get_session_token_request(client, base, database) ==
    Request(client, "POST", SessionsUrl(base, database), BasicHeader, Some(EmptyObj))

\* get_session_token returning an error for every status but 200.
get_session_token_result_checking_status(rep) ==
    IF rep.kind = "send_error" THEN Err("send")
    ELSE IF rep.kind = "not_json" THEN Err("parse")
    ELSE LET token == AsStr(Get(Get(Some(rep.body), "response"), "token"))
         IN  IF IsSome(token) /\ rep.status = 200 THEN Ok(Str(Unwrap(token)))
             ELSE Err("Failed to get token from FileMaker API")

\* get_session_token with unwrap_or_default in place of the error.
get_session_token_result_or_default(rep) ==
    IF rep.kind = "send_error" THEN Err("send")
    ELSE IF rep.kind = "not_json" THEN Err("parse")
    ELSE LET token == AsStr(Get(Get(Some(rep.body), "response"), "token"))
         IN  Ok(Str(IF IsSome(token) THEN Unwrap(token) ELSE <<>>))

\* get_session_token after its .await.
get_session_token_result(rep) ==
    IF rep.kind = "send_error" THEN Err("send")
    ELSE IF rep.kind = "not_json" THEN Err("parse")
    ELSE LET token == AsStr(Get(Get(Some(rep.body), "response"), "token"))
         IN  IF IsSome(token) THEN Ok(Str(Unwrap(token)))
             ELSE Err("Failed to get token from FileMaker API")

\* authenticated_request after its .await: the parsed body or the error.
authenticated_response(rep) ==
    IF rep.kind = "send_error" THEN Err("send")
    ELSE IF rep.kind = "not_json" THEN Err("parse")
    ELSE Ok(rep.body)

RecordsUrl(base, self) ==
    Url(base, "records", self.database, self.table, None, None)
RangeUrl(base, self, start, limit) ==
    Url(base, "records", self.database, self.table, None, Some(<<start, limit>>))
RecordUrl(base, self, id) ==
    Url(base, "record", self.database, self.table, Some(id), None)
FindUrl(base, self) ==
    Url(base, "_find", self.database, self.table, None, None)
DatabasesUrl(base) == Url(base, "databases", None, None, None, None)
LayoutsUrl(base, database) ==
    Url(base, "layouts", encode_parameter(database), None, None, None)
DatabaseUrl(base, database) ==
    Url(base, "database", encode_parameter(database), None, None, None)

\* The unwrapping of response.data shared by get_records and search.
get_records_result(r) ==
    IF ~r.ok THEN r
    ELSE LET data == Get(Get(Some(r.val), "response"), "data")
         IN  IF IsSome(data)
             THEN Ok(Arr(IF IsSome(AsArray(data)) THEN Unwrap(AsArray(data)) ELSE <<>>))
             ELSE Err("Failed to retrieve records")
\* search with an empty list in place of the error.
search_result_or_empty(r) ==
    IF ~r.ok THEN r
    ELSE LET data == AsArray(Get(Get(Some(r.val), "response"), "data"))
         IN  Ok(Arr(IF IsSome(data) THEN Unwrap(data) ELSE <<>>))
search_result(r) ==
    IF ~r.ok THEN r
    ELSE LET data == Get(Get(Some(r.val), "response"), "data")
         IN  IF IsSome(data)
             THEN Ok(Arr(IF IsSome(AsArray(data)) THEN Unwrap(AsArray(data)) ELSE <<>>))
             ELSE Err("Failed to retrieve search results")
advanced_search_result(r) ==
    IF ~r.ok THEN r
    ELSE LET data == AsArray(Get(Get(Some(r.val), "response"), "data"))
         IN  IF IsSome(data) THEN Ok(Arr(Unwrap(data)))
             ELSE Err("Failed to retrieve advanced search results")

\* get_number_of_records with unwrap_or(0) in place of the error.
get_number_of_records_result_or_zero(r) ==
    IF ~r.ok THEN r
    ELSE LET total_count ==
                 AsU64(Get(Get(Get(Some(r.val), "response"), "dataInfo"),
                           "totalRecordCount"))
         IN  Ok(Num(IF IsSome(total_count) THEN Unwrap(total_count) ELSE 0))

get_number_of_records_result(r) ==
    IF ~r.ok THEN r
    ELSE LET total_count ==
                 AsU64(Get(Get(Get(Some(r.val), "response"), "dataInfo"),
                           "totalRecordCount"))
         IN  IF IsSome(total_count) THEN Ok(Num(Unwrap(total_count)))
             ELSE Err("Failed to retrieve total record count")

get_record_by_id_result(r) ==
    IF ~r.ok THEN r
    ELSE LET data == Get(Get(Some(r.val), "response"), "data")
         IN  IF IsSome(data)
             THEN IF IsSome(AsArray(data)) /\ Unwrap(AsArray(data)) # <<>>
                  THEN Ok(Head(Unwrap(AsArray(data))))
                  ELSE Err("No record found")
             ELSE Err("Failed to get record")

\* delete_record reading the upstream's error envelope as a failure.
delete_record_result_reading_messages(r) ==
    IF ~r.ok THEN r
    ELSE LET messages == AsArray(Get(Some(r.val), "messages"))
         IN  IF /\ IsSome(messages) /\ Unwrap(messages) # <<>>
                /\ Get(Some(Head(Unwrap(messages))), "code") = Some(Str(<<"0">>))
             THEN Ok(Obj([success |-> JBool(TRUE)]))
             ELSE Err("Failed to delete record")
delete_record_result(r) ==
    IF ~r.ok THEN r
    ELSE IF IsObject(r.val) THEN Ok(Obj([success |-> JBool(TRUE)]))
    ELSE Err("Failed to delete record")

update_record_result(r) == r

\* The recordId of add_record's POST response: None when it is missing or
\* no string, Some(None) when it is a string that does not parse.
added_record_id(response) ==
    LET record_id == AsStr(Get(Get(Some(response), "response"), "recordId"))
    IN  IF IsSome(record_id) THEN Some(ParseU64(Unwrap(record_id))) ELSE None

add_record_failure(response) ==
    Ok(Obj([success |-> JBool(FALSE), result |-> response]))
add_record_success(added_record) ==
    Ok(Obj([success |-> JBool(TRUE), result |-> added_record]))

\* The names of the entries of a listing that have a string name.
RECURSIVE NamesOf(_)
NamesOf(entries) ==
    IF entries = <<>> THEN <<>>
    ELSE LET name == AsStr(Get(Some(Head(entries)), "name"))
         IN  (IF IsSome(name) THEN <<Str(Unwrap(name))>> ELSE <<>>)
             \o NamesOf(Tail(entries))

listing_result(rep, key, message) ==
    IF rep.kind = "send_error" THEN Err("send")
    ELSE IF rep.kind = "not_json" THEN Err("parse")
    ELSE LET entries == AsArray(Get(Get(Some(rep.body), "response"), key))
         IN  IF IsSome(entries) THEN Ok(Arr(NamesOf(Unwrap(entries))))
             ELSE Err(message)
get_databases_result(rep) ==
    listing_result(rep, "databases", "Failed to retrieve databases")
get_layouts_result(rep) ==
    listing_result(rep, "layouts", "Failed to retrieve layouts")

\* delete_database after its .await: only the send can fail.
delete_database_result(rep) ==
    IF rep.kind = "send_error" THEN Err("send") ELSE Ok(Null)

\* get_row_names_by_example; the keys of a serde_json map come in sorted
\* order.
RECURSIVE LexLess(_, _)
LexLess(a, b) ==
    IF a = <<>> THEN b # <<>>
    ELSE IF b = <<>> THEN FALSE
    ELSE IF Head(a) = Head(b) THEN LexLess(Tail(a), Tail(b))
    ELSE \E i, j \in 1..Len(Alphabet) :
            Alphabet[i] = Head(a) /\ Alphabet[j] = Head(b) /\ i < j
SortedKeys(S) ==
    CHOOSE s \in [1..Cardinality(S) -> S] :
        \A i, j \in 1..Cardinality(S) :
            i < j => LexLess(FieldNameChars(s[i]), FieldNameChars(s[j]))
RECURSIVE KeepRowNames(_)
KeepRowNames(keys) ==
    IF keys = <<>> THEN <<>>
    ELSE (IF ~StartsWith(FieldNameChars(Head(keys)), <<"g", "_">>)
          THEN <<Str(FieldNameChars(Head(keys)))>> ELSE <<>>)
         \o KeepRowNames(Tail(keys))
\* get_row_names_by_example without the test for the "g_" prefix.
get_row_names_by_example_unfiltered(record) ==
    LET field_data == Get(Some(record), "fieldData")
    IN  IF IsSome(field_data) /\ IsObject(Unwrap(field_data))
        THEN LET keys == SortedKeys(DOMAIN Unwrap(field_data).v)
             IN  [i \in 1..Len(keys) |-> Str(FieldNameChars(keys[i]))]
        ELSE <<>>
get_row_names_by_example(record) ==
    LET field_data == Get(Some(record), "fieldData")
    IN  IF IsSome(field_data) /\ IsObject(Unwrap(field_data))
        THEN KeepRowNames(SortedKeys(DOMAIN Unwrap(field_data).v))
        ELSE <<>>

\* ------------------------------------------------------------------ state

VARIABLES
    fmUrl,      \* the environment variable FM_URL, as unwrap_or_default reads it
    handles,    \* the Filemaker values that exist: database, table, token cell
    cells,      \* the Arc<Mutex<Option<String>>> cells, by the handle that made them
    task,       \* the call in progress: its operation, its position and its locals
    wire,       \* the request in flight, if any
    ret,        \* what the last call returned
    table,      \* upstream: the records of the table, in order
    sessions,   \* upstream: each token unissued, open or expired
    hist,       \* what happened during the call in progress (history only)
    locks,      \* the Mutex of each token cell: free, or the caller holding it
    callers     \* concurrent callers of authenticated_request and their position

vars ==
    <<fmUrl, handles, cells, task, wire, ret, table, sessions, hist, locks, callers>>

NoUrl == Url("", "none", None, None, None, None)
\* dropped marks a slot whose handle went out of scope.
NoHandle ==
    [live |-> FALSE, database |-> <<>>, table |-> <<>>, cell |-> "h1", dropped |-> FALSE]
NoTask ==
    [op |-> "none", h |-> "static", pc |-> "idle", done |-> FALSE, database |-> <<>>,
     tbl |-> <<>>, url |-> NoUrl, n |-> 0, recs |-> <<>>, idx |-> 0, args |-> <<>>]
NoResult == [ok |-> FALSE, val |-> Null, err |-> "pending"]
\* The tasks that call methods of handles concurrently.
CallerIds == {"c1", "c2"}
NoCaller == [h |-> "h1", pc |-> "idle", token |-> None, guarded |-> FALSE]
NoHist ==
    [sent |-> 0, invoked |-> 0, stale |-> FALSE, bases |-> <<>>,
     sessionPosts |-> 0, dels |-> <<>>, dirty |-> FALSE, honest |-> TRUE,
     snap |-> None, heard |-> None]

Init ==
    /\ fmUrl = FmUrl
    /\ handles = [h \in HandleIds |-> NoHandle]
    /\ cells = [h \in HandleIds |-> None]
    /\ task = NoTask
    /\ wire = None
    /\ ret = NoResult
    /\ table = <<>>
    /\ sessions = [t \in Tokens |-> "unissued"]
    /\ hist = NoHist
    /\ locks = [c \in HandleIds |-> "free"]
    /\ callers = [c \in CallerIds |-> NoCaller]

Idle == task.pc = "idle"
Done == task.done
Live == {h \in HandleIds : handles[h].live}
Free == {h \in HandleIds : ~handles[h].live}
TokenOf(h) == cells[handles[h].cell]
Open(token) == token \in Tokens /\ sessions[token] = "open"

\* authenticated_request with the credentials header of the static calls in
\* place of the stored token.
authenticated_request_basic(self, url, method, body) ==
    Ok(Request(HandleClient, method, url, BasicHeader, body))

\* authenticated_request with a client of its own, as the static calls have.
authenticated_request_new_client(self, url, method, body) ==
    LET token == cells[self.cell]
    IN  IF token = None THEN Err("No session token found")
        ELSE Ok(Request(DefaultClient, method, url, BearerHeader(Unwrap(token)), body))

\* authenticated_request opening a new session before the request.
authenticated_request_renewing(self, url, method, body) ==
    IF cells[self.cell] = None THEN Err("No session token found")
    ELSE Ok(Request(HandleClient, "POST",
                    Url(url.base, "sessions", self.database, None, None, None),
                    BasicHeader, Some(EmptyObj)))

\* authenticated_request up to its .await: the token is copied out of the
\* cell under the lock and the request is built; Err when the cell is empty.
authenticated_request(self, url, method, body) ==
    LET token == cells[self.cell]
    IN  IF token = None THEN Err("No session token found")
        ELSE Ok(Request(HandleClient, method, url, BearerHeader(Unwrap(token)), body))

\* A call begins: its locals, and the history of the call, start afresh.
Begin(op, h) ==
    [NoTask EXCEPT !.op = op, !.h = h]
BeginHist(h) ==
    [NoHist EXCEPT !.stale = (h \in HandleIds /\ ~Open(Unwrap(TokenOf(h))))]

\* The call returns r to its caller.
Return(t, r) ==
    /\ task' = [t EXCEPT !.done = TRUE]
    /\ ret' = r
    /\ wire' = None

\* The request goes out and the call waits for its answer at pc.
Send(t, pc, req, hs) ==
    /\ task' = [t EXCEPT !.pc = pc]
    /\ wire' = Some(req)
    /\ ret' = NoResult
    /\ hist' = [hs EXCEPT !.sent = @ + 1,
                          !.bases = Append(@, <<req.url.base, fmUrl>>),
                          !.sessionPosts =
                              @ + (IF req.url.route = "sessions" THEN 1 ELSE 0),
                          !.dels = IF req.method = "DELETE" /\ req.url.route = "record"
                                   THEN Append(@, Unwrap(req.url.id)) ELSE @]

\* The outcome of an authenticated_request invocation r: the request goes
\* out, or the call returns the error.
Dispatch(t, pc, r, hs) ==
    IF r.ok
    THEN Send(t, pc, r.val, [hs EXCEPT !.invoked = @ + 1])
    ELSE /\ Return(t, r)
         /\ hist' = [hs EXCEPT !.invoked = @ + 1]

\* The call waits at pc for the answer to the request in flight.
Awaited(pc) == task.pc = pc /\ IsSome(wire)

\* History is kept for the calls that send several requests about one table:
\* whether every answer so far was the documented one, whether another
\* client wrote in the window the call is sensitive to (for get_all_records
\* between its two requests' answers, for clear_database anywhere in the
\* call), and the table as it was when get_all_records' fetch was answered.
Watched == {"get_all_records", "clear_database"}
InWindow ==
    \/ task.op = "clear_database" /\ ~Idle
    \/ task.pc = "get_all_records:records"
Noted(a) ==
    IF task.op \in Watched
    THEN [hist EXCEPT !.honest = @ /\ (Unwrap(wire).method = "GET" => a.served),
                      !.snap = IF task.pc = "get_all_records:records"
                               THEN Some(a.table) ELSE @]
    ELSE hist
\* The history also keeps the last answer the call received.
Heard(a) == [Noted(a) EXCEPT !.heard = Some(a.reply)]

\* The answer a arrives: the upstream is as the answer leaves it.
Upstream(a) ==
    /\ table' = a.table
    /\ sessions' = a.sessions

\* ------------------------------------------------- construction, cloning

\* The slot the next handle takes, and the slot a construction in progress
\* has taken.
FirstFree == CHOOSE x \in Free : \A y \in Free : x = "h1" \/ y # "h1"
Reserved == IF task.op = "new" /\ ~Idle THEN {task.h} ELSE {}

\* Filemaker::new up to the .await inside get_session_token.
New(database, tbl) ==
    /\ Idle
    /\ Free # {}
    /\ Send([Begin("new", FirstFree) EXCEPT !.database = database, !.tbl = tbl],
            "new", get_session_token_request(HandleClient, fmUrl, database),
            BeginHist("static"))
    /\ UNCHANGED <<locks, callers, fmUrl, handles, cells, table, sessions>>

\* Filemaker::new leaving the cell empty, the token to be fetched on first
\* use.
NewDoneLazy(a) ==
    /\ Awaited("new")
    /\ LET token == get_session_token_result(a.reply)
           h == task.h
       IN  IF token.ok
           THEN /\ handles' = [handles EXCEPT ![h] =
                                  [live |-> TRUE,
                                   database |-> encode_parameter(task.database),
                                   table |-> encode_parameter(task.tbl),
                                   cell |-> h,
                                   dropped |-> FALSE]]
                /\ Return(task, Ok(Null))
                /\ UNCHANGED cells
           ELSE /\ Return(task, token)
                /\ UNCHANGED <<handles, cells>>
    /\ Upstream(a)
    /\ hist' = Heard(a)
    /\ UNCHANGED <<locks, callers, fmUrl>>

\* Filemaker::new after the .await: the handle exists only with a token.
NewDone(a) ==
    /\ Awaited("new")
    /\ LET token == get_session_token_result(a.reply)
           h == task.h
       IN  IF token.ok
           THEN /\ handles' = [handles EXCEPT ![h] =
                                  [live |-> TRUE,
                                   database |-> encode_parameter(task.database),
                                   table |-> encode_parameter(task.tbl),
                                   cell |-> h,
                                   dropped |-> FALSE]]
                /\ cells' = [cells EXCEPT ![h] = Some(token.val.v)]
                /\ Return(task, Ok(Null))
           ELSE /\ Return(task, token)
                /\ UNCHANGED <<handles, cells>>
    /\ Upstream(a)
    /\ hist' = Heard(a)
    /\ UNCHANGED <<locks, callers, fmUrl>>

\* The caller takes the result; the call is over.
Returned ==
    /\ Done
    /\ task' = NoTask
    /\ ret' = NoResult
    /\ hist' = NoHist
    /\ UNCHANGED <<locks, callers, fmUrl, handles, cells, wire, table, sessions>>

\* A handle goes out of scope.  Filemaker has no Drop of its own: its
\* fields are freed, the token with the last handle that shares the cell,
\* and nothing is sent.  A handle and its clones are equal values, so the
\* drop of a handle whose clones live on is the drop of one of the clones.
DropHandle(h) ==
    /\ h \in Live
    /\ task.h # h
    /\ \A k \in Live \ {h} : handles[k].cell # h
    /\ handles' = [handles EXCEPT ![h] = [NoHandle EXCEPT !.dropped = TRUE]]
    /\ cells' = IF \E k \in Live \ {h} : handles[k].cell = handles[h].cell
                THEN cells
                ELSE [cells EXCEPT ![handles[h].cell] = None]
    /\ UNCHANGED <<locks, callers, fmUrl, task, wire, ret, table, sessions, hist>>

\* #[derive(Clone)]: the copy shares the token cell.
Clone(h) ==
    /\ ~Done
    /\ h \in Live
    /\ Free \ Reserved # {}
    /\ handles' = [handles EXCEPT ![CHOOSE x \in Free \ Reserved : TRUE] = handles[h]]
    /\ UNCHANGED <<locks, callers, fmUrl, cells, task, wire, ret, table, sessions, hist>>

\* --------------------------------------------------------- reading records

\* A call on handle h begins with one authenticated_request.
Call(op, h, pc, url, method, body, n) ==
    /\ Idle
    /\ h \in Live
    /\ Dispatch([Begin(op, h) EXCEPT !.n = n], pc,
                authenticated_request(handles[h], url, method, body), BeginHist(h))
    /\ UNCHANGED <<locks, callers, fmUrl, handles, cells, table, sessions>>

\* A call that sends its request once more when the send or the parse fails.
StopRetrying(t, r, a) ==
    IF a.reply.kind # "json" /\ hist.sent < 2
    THEN /\ Send(t, t.pc, Unwrap(wire), Heard(a))
         /\ Upstream(a)
         /\ UNCHANGED <<locks, callers, fmUrl, handles, cells>>
    ELSE /\ Return(t, r)
         /\ Upstream(a)
         /\ hist' = Heard(a)
         /\ UNCHANGED <<locks, callers, fmUrl, handles, cells>>

\* A call returns r after an .await.
Stop(t, r, a) ==
    /\ Return(t, r)
    /\ Upstream(a)
    /\ hist' = Heard(a)
    /\ UNCHANGED <<locks, callers, fmUrl, handles, cells>>
Finish(pc, r, a) == Awaited(pc) /\ Stop(task, r, a)

\* A call goes on, after an .await, with another authenticated_request.
Continue(t, pc, url, method, body, a) ==
    /\ Dispatch(t, pc, authenticated_request(handles[task.h], url, method, body),
                Heard(a))
    /\ Upstream(a)
    /\ UNCHANGED <<locks, callers, fmUrl, handles, cells>>

Ranges == {<<2, 1>>}

get_records(h, range) ==
    Call("get_records", h, "get_records",
         RangeUrl(fmUrl, handles[h], range[1], range[2]), "GET", None, 0)
get_records_done(a) ==
    Finish("get_records", get_records_result(authenticated_response(a.reply)), a)

get_number_of_records(h) ==
    Call("get_number_of_records", h, "get_number_of_records",
         RecordsUrl(fmUrl, handles[h]), "GET", None, 0)
get_number_of_records_done(a) ==
    Finish("get_number_of_records",
           get_number_of_records_result(authenticated_response(a.reply)), a)

\* get_all_records: the count, then the records with the count as limit.
get_all_records(h) ==
    Call("get_all_records", h, "get_all_records:count",
         RecordsUrl(fmUrl, handles[h]), "GET", None, 0)
\* get_all_records keeping the base URL of its first request for the second.
get_all_records_counted_same_base(a) ==
    /\ Awaited("get_all_records:count")
    /\ LET total_count == get_number_of_records_result(authenticated_response(a.reply))
       IN  IF total_count.ok
           THEN Continue([task EXCEPT !.n = total_count.val.v],
                         "get_all_records:records",
                         RangeUrl(Unwrap(wire).url.base, handles[task.h], 1,
                                  total_count.val.v),
                         "GET", None, a)
           ELSE Stop(task, total_count, a)

\* get_all_records answering an empty list at once when the count is 0.
get_all_records_counted_nonzero(a) ==
    /\ Awaited("get_all_records:count")
    /\ LET total_count == get_number_of_records_result(authenticated_response(a.reply))
       IN  IF ~total_count.ok THEN Stop(task, total_count, a)
           ELSE IF total_count.val.v = 0 THEN Stop(task, Ok(Arr(<<>>)), a)
           ELSE Continue([task EXCEPT !.n = total_count.val.v],
                         "get_all_records:records",
                         RangeUrl(fmUrl, handles[task.h], 1, total_count.val.v),
                         "GET", None, a)

\* get_all_records fetching without a limit once it has the count.
get_all_records_counted_unlimited(a) ==
    /\ Awaited("get_all_records:count")
    /\ LET total_count == get_number_of_records_result(authenticated_response(a.reply))
       IN  IF total_count.ok
           THEN Continue([task EXCEPT !.n = total_count.val.v],
                         "get_all_records:records",
                         RecordsUrl(fmUrl, handles[task.h]), "GET", None, a)
           ELSE Stop(task, total_count, a)
get_all_records_counted(a) ==
    /\ Awaited("get_all_records:count")
    /\ LET total_count == get_number_of_records_result(authenticated_response(a.reply))
       IN  IF total_count.ok
           THEN Continue([task EXCEPT !.n = total_count.val.v],
                         "get_all_records:records",
                         RangeUrl(fmUrl, handles[task.h], 1, total_count.val.v),
                         "GET", None, a)
           ELSE Stop(task, total_count, a)
get_all_records_done(a) ==
    Finish("get_all_records:records",
           get_records_result(authenticated_response(a.reply)), a)

get_record_by_id(h, id) ==
    Call("get_record_by_id", h, "get_record_by_id",
         RecordUrl(fmUrl, handles[h], id), "GET", None, id)
get_record_by_id_done(a) ==
    Finish("get_record_by_id",
           get_record_by_id_result(authenticated_response(a.reply)), a)

\* get_row_names: the names of the first record's fields, none when the
\* table is empty.
get_row_names(h) ==
    Call("get_row_names", h, "get_row_names",
         RangeUrl(fmUrl, handles[h], 1, 1), "GET", None, 0)
get_row_names_done(a) ==
    /\ Awaited("get_row_names")
    /\ LET records == get_records_result(authenticated_response(a.reply))
       IN  Finish("get_row_names",
                  IF ~records.ok THEN records
                  ELSE IF records.val.v # <<>>
                  THEN Ok(Arr(get_row_names_by_example(Head(records.val.v))))
                  ELSE Ok(Arr(<<>>)), a)

\* The records get_row_names_by_example is called with: every set of the
\* example keys as fieldData, a record without fieldData, fieldData that is no
\* object, and a value that is no object.
ExampleKeys == {"name", "g_total", "g", "g_", "ag_"}
ExampleRecords ==
    {Obj([fieldData |-> Obj([k \in K |-> Str(<<"1">>)])]) : K \in SUBSET ExampleKeys}
    \cup {Obj([recordId |-> Str(<<"1">>)]), Obj([fieldData |-> Num(1)]),
          Obj([fieldData |-> Arr(<<Str(<<"n", "a", "m", "e">>)>>)]), Num(0)}

\* get_row_names_by_example called by the user: no handle, no request.
row_names_by_example(record) ==
    /\ Idle
    /\ task' = [Begin("get_row_names_by_example", "static") EXCEPT
                    !.pc = "get_row_names_by_example", !.done = TRUE,
                    !.args = [record |-> record]]
    /\ ret' = Ok(Arr(get_row_names_by_example(record)))
    /\ hist' = BeginHist("static")
    /\ UNCHANGED <<locks, callers, fmUrl, handles, cells, wire, table, sessions>>

\* ------------------------------------------------------------- searching

Chars_ascend == <<"a", "s", "c", "e", "n", "d">>
Chars_descend == <<"d", "e", "s", "c", "e", "n", "d">>

Query == <<Obj([name |-> Str(<<"1">>)])>>
Fields == [name |-> Str(<<"1">>)]
SortLists == {<<FieldNameChars("name")>>}
\* The query maps, the sort fields and the lists of them a search is given.
QueryMaps ==
    {Obj([name |-> Str(<<"1">>)]), Obj([name |-> Str(<<"2">>), g_total |-> Str(<<"3">>)])}
SortFields == {FieldNameChars("name"), FieldNameChars("g_total")}
RECURSIVE ListsOfLen(_, _)
ListsOfLen(S, n) ==
    IF n = 0 THEN {<<>>}
    ELSE {Append(l, x) : l \in ListsOfLen(S, n - 1), x \in S}
ListsUpTo(S, n) == UNION {ListsOfLen(S, k) : k \in 0..n}

SortEntry(field, ascending) ==
    Obj([fieldName |-> Str(field),
         sortOrder |-> Str(IF ascending THEN Chars_ascend ELSE Chars_descend)])

\* search leaving the sort out of the body when no sort field is given, as
\* advanced_search does.
search_body_sort_optional(query, sort, ascending) ==
    IF sort # <<>>
    THEN Obj([query |-> Arr(query),
              sort |-> Arr([i \in 1..Len(sort) |-> SortEntry(sort[i], ascending)])])
    ELSE Obj([query |-> Arr(query)])
search_body(query, sort, ascending) ==
    Obj([query |-> Arr(query),
         sort |-> Arr([i \in 1..Len(sort) |-> SortEntry(sort[i], ascending)])])

\* order: the order in which the HashMap hands out its keys.
advanced_search_body(fields, order, sort, ascending) ==
    LET query == Arr([i \in 1..Len(order) |->
                         Obj([k \in {order[i]} |-> fields[k]])])
    IN  IF sort # <<>>
        THEN Obj([query |-> query,
                  sort |-> Arr([i \in 1..Len(sort) |-> SortEntry(sort[i], ascending)])])
        ELSE Obj([query |-> query])

Orders(S) ==
    {o \in [1..Cardinality(S) -> S] : \A i, j \in 1..Cardinality(S) : i # j => o[i] # o[j]}

search(h, query, sort, ascending) ==
    /\ Idle
    /\ h \in Live
    /\ Dispatch([Begin("search", h) EXCEPT
                     !.args = [query |-> query, sort |-> sort, ascending |-> ascending]],
                "search",
                authenticated_request(handles[h], FindUrl(fmUrl, handles[h]), "POST",
                                      Some(search_body(query, sort, ascending))),
                BeginHist(h))
    /\ UNCHANGED <<locks, callers, fmUrl, handles, cells, table, sessions>>
search_done(a) ==
    Finish("search", search_result(authenticated_response(a.reply)), a)

advanced_search(h, fields, order, sort, ascending) ==
    Call("advanced_search", h, "advanced_search", FindUrl(fmUrl, handles[h]), "POST",
         Some(advanced_search_body(fields, order, sort, ascending)), 0)
advanced_search_done(a) ==
    Finish("advanced_search",
           advanced_search_result(authenticated_response(a.reply)), a)

\* --------------------------------------------------------- writing records

FieldData == [name |-> Str(<<"1">>)]
field_data_body(field_data) == Obj([fieldData |-> Obj(field_data)])

add_record(h, field_data) ==
    Call("add_record", h, "add_record:post", RecordsUrl(fmUrl, handles[h]), "POST",
         Some(field_data_body(field_data)), 0)
\* add_record returning an error when the response has no usable recordId.
add_record_posted_strict(a) ==
    /\ Awaited("add_record:post")
    /\ LET response == authenticated_response(a.reply)
           record_id == added_record_id(response.val)
       IN  IF ~response.ok THEN Stop(task, response, a)
           ELSE IF IsSome(record_id) /\ IsSome(Unwrap(record_id))
           THEN Continue([task EXCEPT !.n = Unwrap(Unwrap(record_id))],
                         "add_record:get",
                         RecordUrl(fmUrl, handles[task.h], Unwrap(Unwrap(record_id))),
                         "GET", None, a)
           ELSE Stop(task, Err("Failed to add the record"), a)
add_record_posted(a) ==
    /\ Awaited("add_record:post")
    /\ LET response == authenticated_response(a.reply)
           record_id == added_record_id(response.val)
       IN  IF ~response.ok THEN Stop(task, response, a)
           ELSE IF IsSome(record_id) /\ IsSome(Unwrap(record_id))
           THEN Continue([task EXCEPT !.n = Unwrap(Unwrap(record_id))],
                         "add_record:get",
                         RecordUrl(fmUrl, handles[task.h], Unwrap(Unwrap(record_id))),
                         "GET", None, a)
           ELSE Stop(task, add_record_failure(response.val), a)
\* add_record answering success false when the fetch fails.
add_record_fetched_lenient(a) ==
    /\ Awaited("add_record:get")
    /\ LET response == authenticated_response(a.reply)
           added_record == get_record_by_id_result(response)
       IN  Stop(task, IF added_record.ok THEN add_record_success(added_record.val)
                      ELSE IF response.ok THEN add_record_failure(response.val)
                      ELSE response, a)
add_record_fetched(a) ==
    /\ Awaited("add_record:get")
    /\ LET added_record == get_record_by_id_result(authenticated_response(a.reply))
       IN  Stop(task, IF added_record.ok THEN add_record_success(added_record.val)
                      ELSE added_record, a)

update_record(h, id, field_data) ==
    Call("update_record", h, "update_record", RecordUrl(fmUrl, handles[h], id), "PATCH",
         Some(field_data_body(field_data)), id)
update_record_done(a) ==
    Finish("update_record", update_record_result(authenticated_response(a.reply)), a)

delete_record(h, id) ==
    Call("delete_record", h, "delete_record", RecordUrl(fmUrl, handles[h], id), "DELETE",
         None, id)
delete_record_done(a) ==
    Finish("delete_record", delete_record_result(authenticated_response(a.reply)), a)

\* clear_database's loop passing over the records whose recordId it cannot
\* use.
RECURSIVE clear_database_loop_skipping(_, _)
clear_database_loop_skipping(t, a) ==
    IF t.idx > Len(t.recs) THEN Stop(t, Ok(Null), a)
    ELSE LET record == t.recs[t.idx]
             id == AsStr(Get(Some(record), "recordId"))
         IN  IF ~IsSome(id) \/ ~IsSome(ParseU64(Unwrap(id)))
             THEN clear_database_loop_skipping([t EXCEPT !.idx = @ + 1], a)
             ELSE Continue(t, "clear_database:delete",
                           RecordUrl(fmUrl, handles[t.h], Unwrap(ParseU64(Unwrap(id)))),
                           "DELETE", None, a)

\* clear_database's loop from record t.idx on: the next delete goes out, or
\* the call returns.
clear_database_loop(t, a) ==
    IF t.idx > Len(t.recs) THEN Stop(t, Ok(Null), a)
    ELSE LET record == t.recs[t.idx]
             id == AsStr(Get(Some(record), "recordId"))
         IN  IF ~IsSome(id) THEN Stop(t, Err("Record ID not found in record"), a)
             ELSE IF ~IsSome(ParseU64(Unwrap(id)))
             THEN Stop(t, Err("Failed to parse record ID as u64"), a)
             ELSE Continue(t, "clear_database:delete",
                           RecordUrl(fmUrl, handles[t.h], Unwrap(ParseU64(Unwrap(id)))),
                           "DELETE", None, a)

clear_database(h) ==
    Call("clear_database", h, "clear_database:count", RecordsUrl(fmUrl, handles[h]),
         "GET", None, 0)
\* clear_database fetching the records whatever the count is.
clear_database_counted_unchecked(a) ==
    /\ Awaited("clear_database:count")
    /\ LET number_of_records ==
               get_number_of_records_result(authenticated_response(a.reply))
       IN  IF ~number_of_records.ok THEN Stop(task, number_of_records, a)
           ELSE Continue([task EXCEPT !.n = number_of_records.val.v],
                         "clear_database:records",
                         RangeUrl(fmUrl, handles[task.h], 1, number_of_records.val.v),
                         "GET", None, a)
clear_database_counted(a) ==
    /\ Awaited("clear_database:count")
    /\ LET number_of_records ==
               get_number_of_records_result(authenticated_response(a.reply))
       IN  IF ~number_of_records.ok THEN Stop(task, number_of_records, a)
           ELSE IF number_of_records.val.v = 0 THEN Stop(task, Ok(Null), a)
           ELSE Continue([task EXCEPT !.n = number_of_records.val.v],
                         "clear_database:records",
                         RangeUrl(fmUrl, handles[task.h], 1, number_of_records.val.v),
                         "GET", None, a)
clear_database_fetched(a) ==
    /\ Awaited("clear_database:records")
    /\ LET records == get_records_result(authenticated_response(a.reply))
       IN  IF ~records.ok THEN Stop(task, records, a)
           ELSE clear_database_loop([task EXCEPT !.recs = records.val.v, !.idx = 1], a)
clear_database_deleted(a) ==
    /\ Awaited("clear_database:delete")
    /\ LET deleted == delete_record_result(authenticated_response(a.reply))
       IN  IF ~deleted.ok THEN Stop(task, deleted, a)
           ELSE clear_database_loop([task EXCEPT !.idx = @ + 1], a)

\* ------------------------------------------------------- the static calls

\* A static call begins with a request of its own (no handle, no cell).
StaticCall(t, pc, req) ==
    /\ Idle
    /\ Send(t, pc, req, BeginHist("static"))
    /\ UNCHANGED <<locks, callers, fmUrl, handles, cells, table, sessions>>

\* A static call goes on, after an .await, with another request of its own.
StaticContinue(pc, req, a) ==
    /\ Send(task, pc, req, Heard(a))
    /\ Upstream(a)
    /\ UNCHANGED <<locks, callers, fmUrl, handles, cells>>

\* get_databases asking the sessions endpoint first, as get_layouts does.
get_databases_with_session ==
    StaticCall(Begin("get_databases", "static"), "get_databases",
               get_session_token_request(DefaultClient, fmUrl, <<>>))
get_databases ==
    StaticCall(Begin("get_databases", "static"), "get_databases",
               Request(DefaultClient, "GET", DatabasesUrl(fmUrl), BasicHeader, None))
get_databases_done(a) ==
    Finish("get_databases", get_databases_result(a.reply), a)

\* get_layouts builds its URL first, then asks for a token of its own.
get_layouts(database) ==
    StaticCall([Begin("get_layouts", "static") EXCEPT
                   !.database = database, !.url = LayoutsUrl(fmUrl, database)],
               "get_layouts:token",
               get_session_token_request(DefaultClient, fmUrl, database))
\* get_layouts sending the token of an existing handle when there is one.
get_layouts_token_borrowing(a) ==
    /\ Awaited("get_layouts:token")
    /\ LET token == get_session_token_result(a.reply)
           stored == {cells[h] : h \in {x \in HandleIds : IsSome(cells[x])}}
       IN  IF ~token.ok THEN Stop(task, token, a)
           ELSE StaticContinue(
                    "get_layouts:list",
                    Request(DefaultClient, "GET", task.url,
                            BearerHeader(IF stored # {}
                                         THEN Unwrap(CHOOSE t \in stored : TRUE)
                                         ELSE token.val.v), None), a)
get_layouts_token(a) ==
    /\ Awaited("get_layouts:token")
    /\ LET token == get_session_token_result(a.reply)
       IN  IF ~token.ok THEN Stop(task, token, a)
           ELSE StaticContinue(
                    "get_layouts:list",
                    Request(DefaultClient, "GET", task.url,
                            BearerHeader(token.val.v), None), a)
\* get_layouts closing its session once the listing is answered.
get_layouts_done_closing(a) ==
    /\ Awaited("get_layouts:list")
    /\ StaticContinue("get_layouts:close",
                      Request(DefaultClient, "DELETE",
                              SessionsUrl(Unwrap(wire).url.base, task.database),
                              Unwrap(wire).auth, None), a)
get_layouts_done(a) ==
    Finish("get_layouts:list", get_layouts_result(a.reply), a)

delete_database(database) ==
    StaticCall([Begin("delete_database", "static") EXCEPT
                   !.database = database, !.url = DatabaseUrl(fmUrl, database)],
               "delete_database:token",
               get_session_token_request(DefaultClient, fmUrl, database))
delete_database_token(a) ==
    /\ Awaited("delete_database:token")
    /\ LET token == get_session_token_result(a.reply)
       IN  IF ~token.ok THEN Stop(task, token, a)
           ELSE StaticContinue(
                    "delete_database:delete",
                    Request(DefaultClient, "DELETE", task.url,
                            BearerHeader(token.val.v), None), a)
delete_database_done(a) ==
    Finish("delete_database:delete", delete_database_result(a.reply), a)

\* ----------------------------------------------------------- the upstream

OkMessages == Arr(<<Obj([code |-> Str(<<"0">>), message |-> Str(<<"O", "K">>)])>>)
Envelope(response) == Obj([messages |-> OkMessages, response |-> response])
\* The error envelope: the messages name the error, the response is empty.
ErrorEnvelope ==
    Obj([messages |-> Arr(<<Obj([code |-> Str(<<"9", "5", "2">>),
                                 message |-> Str(<<"E", "r", "r">>)])>>),
         response |-> EmptyObj])

Min(a, b) == IF a < b THEN a ELSE b
\* The records from the 1-based offset on, at most limit of them.
Slice(tbl, offset, limit) == SubSeq(tbl, offset, Min(Len(tbl), offset + limit - 1))

HasId(record, id) == Get(Some(record), "recordId") = Some(Str(U64ToString(id)))
Without(tbl, id) == SelectSeq(tbl, LAMBDA r : ~HasId(r, id))
Holds(tbl, id) == \E i \in 1..Len(tbl) : HasId(tbl[i], id)
Find(tbl, id) == SelectSeq(tbl, LAMBDA r : HasId(r, id))
InTable(tbl) == {tbl[i] : i \in 1..Len(tbl)}
\* The table with record r added, in the upstream's order.
With(tbl, r) == SelectSeq(PoolOrder, LAMBDA x : x = r \/ x \in InTable(tbl))

\* An answer: what comes back, what the upstream state becomes, and whether
\* the upstream did what the API documents for the request.
Answer(rep, tbl, ses, served) ==
    [reply |-> rep, table |-> tbl, sessions |-> ses, served |-> served]

\* The failures between client and server: nothing comes back, or a body
\* that is no JSON.
Faults == {SendError, NotJson(200)}

\* JSON bodies outside the documented API: no object, data that is no array,
\* an empty data array.
OddBodies ==
    {Num(0), Envelope(Obj([data |-> Str(<<"x">>)])), Envelope(Obj([data |-> Arr(<<>>)]))}

\* A recordId that is no string, and one that is no decimal number.
OddIds == {Num(7), Str(<<"x">>)}

Authorised(req) == \E t \in Tokens : Open(t) /\ req.auth = BearerHeader(t)

\* The documented answers to the session request: a new token, whose
\* session is then open.
SessionAnswers ==
    {Answer(Json(200, Envelope(Obj([token |-> Str(t)]))), table,
            [sessions EXCEPT ![t] = "open"], TRUE) :
        t \in {x \in Tokens : sessions[x] = "unissued"}}

\* The documented answer to a request on the records of the table.
RecordAnswers(req) ==
    LET url == req.url
        served(body, tbl) == {Answer(Json(200, Envelope(body)), tbl, sessions, TRUE)}
        missing == {Answer(Json(401, ErrorEnvelope), table, sessions, TRUE)}
        free == {k \in ServerIds : ~Holds(table, k)}
    IN  CASE url.route = "records" /\ req.method = "GET" ->
                 served(Obj([dataInfo |-> Obj([totalRecordCount |-> Num(Len(table))]),
                             data |-> Arr(IF IsSome(url.range)
                                          THEN Slice(table, Unwrap(url.range)[1],
                                                     Unwrap(url.range)[2])
                                          ELSE table)]), table)
          [] url.route = "records" /\ req.method = "POST" ->
                 IF Len(table) < MaxRows /\ free # {}
                 THEN LET k == CHOOSE x \in free : \A y \in free : x <= y
                      IN  served(Obj([recordId |-> Str(U64ToString(k))]),
                                 With(table, WellFormedRecord(k)))
                 ELSE missing
          [] url.route = "record" /\ req.method = "GET" ->
                 IF Holds(table, Unwrap(url.id))
                 THEN served(Obj([data |-> Arr(Find(table, Unwrap(url.id)))]), table)
                 ELSE missing
          [] url.route = "record" /\ req.method = "PATCH" ->
                 IF Holds(table, Unwrap(url.id))
                 THEN served(Obj([modId |-> Str(<<"1">>)]), table)
                 ELSE missing
          [] url.route = "record" /\ req.method = "DELETE" ->
                 IF Holds(table, Unwrap(url.id))
                 THEN served(EmptyObj, Without(table, Unwrap(url.id)))
                 ELSE missing
          [] url.route = "_find" ->
                 served(Obj([data |-> Arr(table)]), table)
          [] url.route = "layouts" ->
                 served(Obj([layouts |-> Arr(<<Obj([name |-> Str(<<"t", " ", "1">>)]),
                                               EmptyObj>>)]), table)
          [] url.route = "database" ->
                 served(EmptyObj, <<>>)
          [] OTHER -> missing

\* Every answer the upstream can give to the request in flight.
Answers(req) ==
    LET refused == {Answer(Json(401, ErrorEnvelope), table, sessions, FALSE)}
        faults == {Answer(f, table, sessions, FALSE) : f \in Faults}
        odd == {Answer(Json(200, b), table, sessions, FALSE) : b \in OddBodies}
        ids == IF req.url.route = "records" /\ req.method = "POST"
               THEN {Answer(Json(200, Envelope(Obj([recordId |-> i]))), table,
                            sessions, FALSE) : i \in OddIds}
               ELSE {}
    IN  faults \cup
        (CASE req.url.route = "sessions" ->
                  SessionAnswers \cup refused \cup
                  {Answer(Json(401, Envelope(Obj([token |-> Str(NoToken)]))), table,
                          sessions, FALSE)}
           [] req.url.route = "databases" ->
                  {Answer(Json(200, Envelope(Obj([databases |->
                              Arr(<<Obj([name |-> Str(<<"m", "y", " ", "d", "b">>)]),
                                    EmptyObj>>)]))),
                          table, sessions, TRUE)}
                  \cup refused \cup odd
           [] OTHER ->
                  IF Authorised(req)
                  THEN RecordAnswers(req) \cup refused \cup odd \cup ids
                  ELSE refused)

\* Another client of the same table adds or deletes a record.
OtherClientAdd(r) ==
    /\ ~Done
    /\ Len(table) < MaxRows
    /\ r \notin InTable(table)
    /\ table' = With(table, r)
    /\ hist' = IF InWindow THEN [hist EXCEPT !.dirty = TRUE] ELSE hist
    /\ UNCHANGED <<locks, callers, fmUrl, handles, cells, task, wire, ret, sessions>>
OtherClientDelete(i) ==
    /\ ~Done
    /\ i \in 1..Len(table)
    /\ table' = SubSeq(table, 1, i - 1) \o SubSeq(table, i + 1, Len(table))
    /\ hist' = IF InWindow THEN [hist EXCEPT !.dirty = TRUE] ELSE hist
    /\ UNCHANGED <<locks, callers, fmUrl, handles, cells, task, wire, ret, sessions>>

\* The upstream expires an open session.
ExpireSession(t) ==
    /\ ~Done
    /\ sessions[t] = "open"
    /\ sessions' = [sessions EXCEPT ![t] = "expired"]
    /\ UNCHANGED <<locks, callers, fmUrl, handles, cells, task, wire, ret, table, hist>>

\* The process sets or removes FM_URL (std::env::set_var / remove_var).
SetFmUrl(u) ==
    /\ ~Done
    /\ u # fmUrl
    /\ fmUrl' = u
    /\ UNCHANGED <<locks, callers, handles, cells, task, wire, ret, table, sessions, hist>>

\* ------------------------------------------------------ concurrent callers

\* The first statement of authenticated_request, as each of several tasks
\* calling methods of a handle and of its clones runs it:
\*     let token = self.token.lock().await.clone();
\* The task waits for the Mutex of the cell, holds it, copies the token and
\* drops the guard at the end of the statement.
CellOf(c) == handles[callers[c].h].cell

\* Task c calls a method of handle h and reaches lock().await.
Enter(c, h) ==
    /\ callers[c].pc = "idle"
    /\ h \in Live
    /\ callers' = [callers EXCEPT ![c] = [NoCaller EXCEPT !.h = h, !.pc = "lock"]]
    /\ UNCHANGED <<fmUrl, handles, cells, task, wire, ret, table, sessions, hist, locks>>

\* Taking a Mutex without waiting for it to be free.
AcquireUnguarded(c) ==
    /\ callers[c].pc = "lock"
    /\ locks' = [locks EXCEPT ![CellOf(c)] = c]
    /\ callers' = [callers EXCEPT ![c].pc = "clone"]
    /\ UNCHANGED <<fmUrl, handles, cells, task, wire, ret, table, sessions, hist>>

\* lock().await completes: the Mutex was free and c holds it.
Acquire(c) ==
    /\ callers[c].pc = "lock"
    /\ locks[CellOf(c)] = "free"
    /\ locks' = [locks EXCEPT ![CellOf(c)] = c]
    /\ callers' = [callers EXCEPT ![c].pc = "clone"]
    /\ UNCHANGED <<fmUrl, handles, cells, task, wire, ret, table, sessions, hist>>

\* .clone() keeping the guard for the rest of the call.
CloneTokenHolding(c) ==
    /\ callers[c].pc = "clone"
    /\ callers' = [callers EXCEPT ![c].pc = "read",
                                  ![c].token = cells[CellOf(c)],
                                  ![c].guarded = (locks[CellOf(c)] = c)]
    /\ UNCHANGED <<fmUrl, handles, cells, task, wire, ret, table, sessions, hist, locks>>

\* .clone() under the guard, which is dropped with the statement.
CloneToken(c) ==
    /\ callers[c].pc = "clone"
    /\ callers' = [callers EXCEPT ![c].pc = "read",
                                  ![c].token = cells[CellOf(c)],
                                  ![c].guarded = (locks[CellOf(c)] = c)]
    /\ locks' = [locks EXCEPT ![CellOf(c)] = "free"]
    /\ UNCHANGED <<fmUrl, handles, cells, task, wire, ret, table, sessions, hist>>

\* request.send().await: the request is out and the task waits for the
\* network.
SendRequest(c) ==
    /\ callers[c].pc = "read"
    /\ callers' = [callers EXCEPT ![c].pc = "wait"]
    /\ UNCHANGED <<fmUrl, handles, cells, task, wire, ret, table, sessions, hist, locks>>

\* An answer arrives, if ever: the rest of the call is that of the
\* sequential model; the task is done.
Leave(c) ==
    /\ callers[c].pc = "wait"
    /\ callers' = [callers EXCEPT ![c] = NoCaller]
    /\ UNCHANGED <<fmUrl, handles, cells, task, wire, ret, table, sessions, hist, locks>>

\* -------------------------------------------------------- the specification

\* The answers the request in flight can get.
Pending == IF IsSome(wire) THEN Answers(Unwrap(wire)) ELSE {}

Next ==
    \/ \E d \in Databases, t \in Tables : New(d, t)
    \/ \E a \in Pending : NewDone(a)
    \/ Returned
    \/ \E h \in HandleIds : Clone(h)
    \/ \E h \in HandleIds, r \in Ranges : get_records(h, r)
    \/ \E a \in Pending : get_records_done(a)
    \/ \E h \in HandleIds : get_number_of_records(h)
    \/ \E a \in Pending : get_number_of_records_done(a)
    \/ \E h \in HandleIds : get_all_records(h)
    \/ \E a \in Pending : get_all_records_counted(a)
    \/ \E a \in Pending : get_all_records_done(a)
    \/ \E h \in HandleIds, id \in ServerIds : get_record_by_id(h, id)
    \/ \E a \in Pending : get_record_by_id_done(a)
    \/ \E h \in HandleIds : get_row_names(h)
    \/ \E a \in Pending : get_row_names_done(a)
    \/ \E h \in HandleIds, s \in SortLists, a \in BOOLEAN : search(h, Query, s, a)
    \/ \E a \in Pending : search_done(a)
    \/ \E h \in HandleIds, s \in SortLists, a \in BOOLEAN, o \in Orders(DOMAIN Fields) :
          advanced_search(h, Fields, o, s, a)
    \/ \E a \in Pending : advanced_search_done(a)
    \/ \E h \in HandleIds : add_record(h, FieldData)
    \/ \E a \in Pending : add_record_posted(a)
    \/ \E a \in Pending : add_record_fetched(a)
    \/ \E h \in HandleIds, id \in ServerIds : update_record(h, id, FieldData)
    \/ \E a \in Pending : update_record_done(a)
    \/ \E h \in HandleIds, id \in ServerIds : delete_record(h, id)
    \/ \E a \in Pending : delete_record_done(a)
    \/ \E h \in HandleIds : clear_database(h)
    \/ \E a \in Pending : clear_database_counted(a)
    \/ \E a \in Pending : clear_database_fetched(a)
    \/ \E a \in Pending : clear_database_deleted(a)
    \/ get_databases
    \/ \E a \in Pending : get_databases_done(a)
    \/ \E d \in Databases : get_layouts(d)
    \/ \E a \in Pending : get_layouts_token(a)
    \/ \E a \in Pending : get_layouts_done(a)
    \/ \E d \in Databases : delete_database(d)
    \/ \E a \in Pending : delete_database_token(a)
    \/ \E a \in Pending : delete_database_done(a)
    \/ \E r \in RecordPool : OtherClientAdd(r)
    \/ \E i \in 1..MaxRows : OtherClientDelete(i)
    \/ \E t \in Tokens : ExpireSession(t)

Spec == Init /\ [][Next]_vars

\* The calls that build URLs, with FM_URL changing under them.
NextUrl ==
    \/ \E d \in Databases, t \in Tables : New(d, t)
    \/ \E a \in Pending : NewDone(a)
    \/ Returned
    \/ \E h \in HandleIds : get_all_records(h)
    \/ \E a \in Pending : get_all_records_counted(a)
    \/ \E a \in Pending : get_all_records_done(a)
    \/ \E h \in HandleIds : add_record(h, FieldData)
    \/ \E a \in Pending : add_record_posted(a)
    \/ \E a \in Pending : add_record_fetched(a)
    \/ \E h \in HandleIds : clear_database(h)
    \/ \E a \in Pending : clear_database_counted(a)
    \/ \E a \in Pending : clear_database_fetched(a)
    \/ \E a \in Pending : clear_database_deleted(a)
    \/ get_databases
    \/ \E a \in Pending : get_databases_done(a)
    \/ \E d \in Databases : get_layouts(d)
    \/ \E a \in Pending : get_layouts_token(a)
    \/ \E a \in Pending : get_layouts_done(a)
    \/ \E d \in Databases : delete_database(d)
    \/ \E a \in Pending : delete_database_token(a)
    \/ \E a \in Pending : delete_database_done(a)
    \/ \E u \in FmUrls : SetFmUrl(u)
SpecUrl == Init /\ [][NextUrl]_vars

\* Handles, clones and the tasks that call them concurrently.
NextLock ==
    \/ \E d \in Databases, t \in Tables : New(d, t)
    \/ \E a \in Pending : NewDone(a)
    \/ Returned
    \/ \E h \in HandleIds : Clone(h)
    \/ \E c \in CallerIds, h \in HandleIds : Enter(c, h)
    \/ \E c \in CallerIds : Acquire(c)
    \/ \E c \in CallerIds : CloneToken(c)
    \/ \E c \in CallerIds : SendRequest(c)
    \/ \E c \in CallerIds : Leave(c)
SpecLock == Init /\ [][NextLock]_vars
\* The scheduling of the callers: tokio's Mutex hands the lock to its
\* waiters in turn, and a task that holds it runs on to the end of the
\* statement, which has no .await; nothing makes an answer arrive.
SpecLockFair ==
    /\ SpecLock
    /\ \A c \in CallerIds : SF_vars(Acquire(c)) /\ WF_vars(CloneToken(c))

\* One handle constructed with any of the names, and its requests.
NextNames ==
    \/ \E p \in NamePairs : Live = {} /\ New(p[1], p[2])
    \/ \E a \in Pending : NewDone(a)
    \/ Returned
    \/ \E h \in HandleIds, r \in Ranges : get_records(h, r)
    \/ \E a \in Pending : get_records_done(a)
    \/ \E h \in HandleIds, id \in ServerIds : get_record_by_id(h, id)
    \/ \E a \in Pending : get_record_by_id_done(a)
SpecNames == Init /\ [][NextNames]_vars

\* A handle and its searches, with every list of queries and of sort fields
\* up to MaxList.
NextSearch ==
    \/ \E d \in Databases, t \in Tables : Live = {} /\ New(d, t)
    \/ \E a \in Pending : NewDone(a)
    \/ Returned
    \/ \E h \in HandleIds, q \in ListsUpTo(QueryMaps, MaxList),
          s \in ListsUpTo(SortFields, MaxList), a \in BOOLEAN : search(h, q, s, a)
    \/ \E a \in Pending : search_done(a)
SpecSearch == Init /\ [][NextSearch]_vars

\* The calls that open sessions, handles that are cloned and dropped, and
\* the upstream expiring sessions.
NextSessions ==
    \/ \E d \in Databases, t \in Tables : New(d, t)
    \/ \E a \in Pending : NewDone(a)
    \/ Returned
    \/ \E h \in HandleIds : Clone(h)
    \/ \E h \in HandleIds : DropHandle(h)
    \/ \E h \in HandleIds, id \in ServerIds : get_record_by_id(h, id)
    \/ \E a \in Pending : get_record_by_id_done(a)
    \/ get_databases
    \/ \E a \in Pending : get_databases_done(a)
    \/ \E d \in Databases : get_layouts(d)
    \/ \E a \in Pending : get_layouts_token(a)
    \/ \E a \in Pending : get_layouts_done(a)
    \/ \E d \in Databases : delete_database(d)
    \/ \E a \in Pending : delete_database_token(a)
    \/ \E a \in Pending : delete_database_done(a)
    \/ \E t \in Tokens : ExpireSession(t)
SpecSessions == Init /\ [][NextSessions]_vars

\* The field names: get_row_names_by_example on every example record, and
\* get_row_names on a handle while other clients fill and empty the table.
NextRows ==
    \/ \E d \in Databases, t \in Tables : Live = {} /\ New(d, t)
    \/ \E a \in Pending : NewDone(a)
    \/ Returned
    \/ \E r \in ExampleRecords : row_names_by_example(r)
    \/ \E h \in HandleIds : get_row_names(h)
    \/ \E a \in Pending : get_row_names_done(a)
    \/ \E r \in RecordPool : OtherClientAdd(r)
    \/ \E i \in 1..MaxRows : OtherClientDelete(i)
SpecRows == Init /\ [][NextRows]_vars

\* ------------------------------------------------------------- the claims

\* The operations called on a handle.
HandleOps ==
    {"get_records", "get_all_records", "get_number_of_records", "search",
     "advanced_search", "add_record", "update_record", "get_record_by_id",
     "delete_record", "clear_database", "get_row_names"}
Flying == Unwrap(wire)
HandleToken == Unwrap(TokenOf(task.h))

\* C1 Token reuse.  No step changes a token cell that holds a token; a cell
\* is filled only with the token of the session request's answer (a token
\* whose session that very answer opened, or the string a non-2xx answer
\* carried); and every request of an operation on a handle or a clone
\* carries "Bearer " followed by exactly the token of the handle's cell.
TokenKept ==
    \A c \in HandleIds : IsSome(cells[c]) => cells'[c] = cells[c]
TokenMinted ==
    \A c \in HandleIds :
        cells[c] = None /\ IsSome(cells'[c]) =>
            /\ task.op = "new" /\ task.h = c
            /\ LET t == Unwrap(cells'[c])
               IN  \/ t = NoToken
                   \/ t \in Tokens /\ sessions[t] = "unissued" /\ sessions'[t] = "open"
BearerSent ==
    IsSome(wire') /\ task'.op \in HandleOps =>
        Unwrap(wire').auth = BearerHeader(Unwrap(cells'[handles'[task'.h].cell]))
C1_TokenReuse == [][TokenKept /\ TokenMinted /\ BearerSent]_vars

\* A clone, late in a call, sends the token of the cell it shares with the
\* handle it was cloned from, although the session has expired.
C1_Witness ==
    /\ task.h = "h2" /\ handles["h2"].live /\ handles["h2"].cell = "h1"
    /\ task.pc = "clear_database:delete" /\ IsSome(wire)
    /\ hist.sent = 4
    /\ Flying.auth = BearerHeader(Unwrap(cells["h1"]))
    /\ ~Open(Unwrap(cells["h1"]))

\* C2 No re-authentication.  A call on a handle never posts to the
\* sessions endpoint, and a call that began with a token the upstream
\* rejects, or that has had a request refused, still sends that token.
C2_NoReauthentication ==
    task.op \in HandleOps =>
        /\ hist.sessionPosts = 0
        /\ IsSome(wire) =>
              /\ Flying.url.route # "sessions"
              /\ Flying.auth = BearerHeader(HandleToken)

\* The fourth request of a clear_database whose session expired under it.
C2_Witness ==
    /\ task.op = "clear_database" /\ task.pc = "clear_database:delete"
    /\ IsSome(wire) /\ hist.sent = 4
    /\ ~Open(HandleToken)
    /\ Flying.auth = BearerHeader(HandleToken)

\* The last answer the call in progress received, and whether it was a
\* failure of the send or of the parse.
HeardReply == Unwrap(hist.heard)
Faulted == IsSome(hist.heard) /\ HeardReply.kind # "json"
\* The upstream refused the request with its error envelope.
Refused == IsSome(hist.heard) /\ HeardReply = Json(401, ErrorEnvelope)

C4_NoRetry ==
    task.op \in HandleOps =>
        /\ hist.sent <= hist.invoked
        /\ Faulted =>
              /\ Done /\ ~ret.ok /\ ret.err \in {"send", "parse"}
              /\ wire = None

\* clear_database returned on the failure of its first delete, three
\* requests sent, with a record still to delete.
C4_Witness ==
    /\ Done /\ task.op = "clear_database" /\ task.pc = "clear_database:delete"
    /\ Faulted /\ ~ret.ok
    /\ hist.sent = 3 /\ hist.invoked = 3
    /\ task.idx = 1 /\ Len(task.recs) >= 2

\* The string at response.token of an answer, if there is one.
SessionToken(rep) ==
    IF rep.kind = "json"
    THEN AsStr(Get(Get(Some(rep.body), "response"), "token"))
    ELSE None

SessionHeard ==
    /\ IsSome(hist.heard)
    /\ \/ Done /\ task.pc \in {"new", "get_layouts:token", "delete_database:token"}
       \/ ~Done /\ task.pc \in {"get_layouts:list", "delete_database:delete"}
TokenAcquired ==
    \/ Done /\ task.pc = "new" /\ ret.ok
    \/ ~Done /\ task.pc \in {"get_layouts:list", "delete_database:delete"}

\* C6 Session-token acquisition fails on a bad upstream answer, as stated:
\* an answer with a status outside 2xx, or without a string at
\* response.token, yields an error and no token.
C6_BadAnswerFails ==
    SessionHeard /\ (\/ HeardReply.kind # "json"
                     \/ HeardReply.status \notin 200..299
                     \/ ~IsSome(SessionToken(HeardReply))) =>
        Done /\ ~ret.ok /\ ~TokenAcquired

\* C6 as the code has it.  get_session_token yields a token exactly when the
\* answer is JSON with a string at response.token, whatever its status;
\* without one the caller (new, get_layouts, delete_database) returns Err
\* and sends nothing more; with one the caller holds or sends that string.
C6_TokenIffTokenField ==
    SessionHeard =>
        LET token == SessionToken(HeardReply)
        IN  /\ TokenAcquired <=> IsSome(token)
            /\ ~IsSome(token) => Done /\ ~ret.ok /\ wire = None
            /\ IsSome(token) /\ task.pc = "new" => cells[task.h] = token
            /\ IsSome(token) /\ task.pc # "new" =>
                  IsSome(wire) /\ Flying.auth = BearerHeader(Unwrap(token))

\* get_layouts goes on with the string a 401 answer carried.
C6_Witness ==
    /\ ~Done /\ task.pc = "get_layouts:list"
    /\ HeardReply.kind = "json" /\ HeardReply.status = 401
    /\ IsSome(wire) /\ Flying.auth = BearerHeader(NoToken)

\* The JSON field each request's answer is read for, as a path; none where
\* the code reads no field.
ExpectedField(pc) ==
    CASE pc \in {"get_records", "get_all_records:records", "search",
                 "advanced_search", "get_record_by_id", "get_row_names",
                 "add_record:get", "clear_database:records"} ->
             <<"response", "data">>
      [] pc \in {"get_number_of_records", "get_all_records:count",
                 "clear_database:count"} ->
             <<"response", "dataInfo", "totalRecordCount">>
      [] pc = "add_record:post" -> <<"response", "recordId">>
      [] pc \in {"new", "get_layouts:token", "delete_database:token"} ->
             <<"response", "token">>
      [] pc = "get_databases" -> <<"response", "databases">>
      [] pc = "get_layouts:list" -> <<"response", "layouts">>
      [] OTHER -> <<>>
RECURSIVE GetPath(_, _)
GetPath(o, path) ==
    IF path = <<>> THEN o ELSE GetPath(Get(o, Head(path)), Tail(path))
\* The last answer is JSON without the field its request is read for.
Lacks ==
    /\ IsSome(hist.heard) /\ HeardReply.kind = "json"
    /\ ExpectedField(task.pc) # <<>>
    /\ ~IsSome(GetPath(Some(HeardReply.body), ExpectedField(task.pc)))

C7_DeleteDatabaseUnread ==
    /\ Done /\ task.pc = "delete_database:delete"
    /\ HeardReply.kind = "not_json"
    /\ ret = Ok(Null)

\* The record id clear_database makes of a record, if it can.
ParsedId(record) ==
    LET id == AsStr(Get(Some(record), "recordId"))
    IN  IF IsSome(id) THEN ParseU64(Unwrap(id)) ELSE None

\* The deletes sent so far are those of the first records of the fetched
\* list, in its order, one request in flight at a time; the call is at the
\* record of its last delete while that is in flight; after an Err the record
\* at hand is the one without a usable recordId, no delete sent for it or
\* any later one, or the one whose delete failed, no delete sent for any
\* later one; after Ok a delete was sent for every record.
C8_State ==
    task.op = "clear_database" =>
        LET recs == task.recs
            dels == hist.dels
            idx == task.idx
        IN  /\ Len(dels) <= Len(recs)
            /\ \A i \in 1..Len(dels) : ParsedId(recs[i]) = Some(dels[i])
            /\ hist.sent = IF task.pc = "clear_database:count" THEN 1
                           ELSE 2 + Len(dels)
            /\ IsSome(wire) => Flying.method \in {"GET", "DELETE"}
            /\ task.pc = "clear_database:delete" /\ ~Done =>
                  /\ IsSome(wire) /\ Len(dels) = idx
                  /\ Flying.method = "DELETE" /\ Flying.url.route = "record"
                  /\ Flying.url.id = Some(dels[idx])
                  /\ idx > 1 => HeardReply.kind = "json" /\ IsObject(HeardReply.body)
            /\ Done /\ task.pc = "clear_database:delete"
                    /\ (Faulted \/ ~IsObject(HeardReply.body)) =>
                  ~ret.ok /\ Len(dels) = idx
            /\ Done /\ ~ret.ok /\ recs # <<>> =>
                  /\ wire = None
                  /\ idx \in 1..Len(recs)
                  /\ CASE ret.err = "Record ID not found in record" ->
                              /\ ~IsSome(AsStr(Get(Some(recs[idx]), "recordId")))
                              /\ Len(dels) = idx - 1
                       [] ret.err = "Failed to parse record ID as u64" ->
                              /\ IsSome(AsStr(Get(Some(recs[idx]), "recordId")))
                              /\ ParsedId(recs[idx]) = None
                              /\ Len(dels) = idx - 1
                       [] OTHER ->
                              /\ task.pc = "clear_database:delete"
                              /\ Len(dels) = idx
            /\ Done /\ ret.ok =>
                  /\ Len(dels) = Len(recs)
                  /\ recs # <<>> => idx = Len(recs) + 1
\* No step of clear_database itself puts a record into the table.
C8_Step ==
    task.op = "clear_database" /\ task' # task =>
        InTable(table') \subseteq InTable(table)

\* C8 clear_database aborts on the first failure.  Deletes go out one at a
\* time in the order of the fetched list; at the first record without a
\* string recordId, with a recordId that does not parse, or whose delete
\* returns Err, clear_database returns Err with no delete sent for any later
\* record; and it never writes a deleted record back.
C8_AbortsOnFirstFailure == []C8_State /\ [][C8_Step]_vars

\* Of three records the first was deleted, the second has no string
\* recordId, and the third is still there.
C8_Witness ==
    /\ Done /\ task.op = "clear_database"
    /\ ret.err = "Record ID not found in record"
    /\ task.recs = <<WellFormedRecord(1), NonStringRecord, WellFormedRecord(2)>>
    /\ hist.dels = <<1>>
    /\ ~hist.dirty
    /\ table = <<NonStringRecord, WellFormedRecord(2)>>

\* C9 clear_database returns Ok(()) only if all records were deleted: when
\* it returned Ok, no other client wrote to the table during the call and
\* the count and the list it fetched were the table's, no fetched record is
\* in the table any more.
C9_OkOnlyIfAllDeleted ==
    Done /\ task.op = "clear_database" /\ ret.ok /\ ~hist.dirty /\ hist.honest =>
        \A i \in 1..Len(task.recs) : task.recs[i] \notin InTable(table)

\* C10 get_all_records is not atomic.  Its first request asks for the
\* records without a range and is read for the count n; its second asks for
\* the range from 1 with limit n.  When both answers are the documented
\* ones it returns the first n records of the table as it is at the second
\* answer, and the whole of that table when no other client wrote in
\* between.
C10_NotAtomic ==
    task.op = "get_all_records" =>
        /\ IsSome(wire) => Flying.method = "GET" /\ Flying.url.route = "records"
        /\ task.pc = "get_all_records:count" /\ IsSome(wire) =>
              Flying.url.range = None /\ hist.sent = 1
        /\ task.pc = "get_all_records:records" /\ IsSome(wire) =>
              Flying.url.range = Some(<<1, task.n>>) /\ hist.sent = 2
        /\ Done /\ ret.ok /\ hist.honest =>
              /\ IsSome(hist.snap)
              /\ ret.val = Arr(Slice(Unwrap(hist.snap), 1, task.n))
              /\ ~hist.dirty =>
                    ret.val = Arr(Unwrap(hist.snap)) /\ task.n = Len(Unwrap(hist.snap))

\* Another client added a record between the two requests: the list is
\* shorter than the table was when the second request was answered.
C10_Witness ==
    /\ Done /\ task.op = "get_all_records" /\ ret.ok
    /\ hist.honest /\ hist.dirty
    /\ Len(ret.val.v) = task.n
    /\ Len(ret.val.v) < Len(Unwrap(hist.snap))

\* Another client deleted a record between the two requests: the list is
\* shorter than the count that was read.
C10_OverCount ==
    /\ Done /\ task.op = "get_all_records" /\ ret.ok
    /\ hist.honest /\ hist.dirty
    /\ Len(ret.val.v) = Len(Unwrap(hist.snap))
    /\ Len(ret.val.v) < task.n

\* The calls made without a handle.
StaticOps == {"get_databases", "get_layouts", "delete_database"}
\* The listing request of get_databases or get_layouts is in flight.
ListingInFlight ==
    IsSome(wire) /\ task.pc \in {"get_databases", "get_layouts:list"}

\* C11 Discovery calls authenticate through the sessions endpoint, as
\* stated: when a listing request of get_layouts or get_databases is in
\* flight, the call has posted to the sessions endpoint before and the
\* listing request carries a bearer token.
C11_SessionBeforeListing ==
    ListingInFlight =>
        /\ hist.sessionPosts = 1 /\ hist.sent = 2
        /\ StartsWith(Flying.auth, BearerPrefix)

\* C11 as the code has it.  get_layouts posts to the sessions endpoint with
\* the Basic header first and sends its listing request second, with the
\* token of that answer as bearer.  get_databases never posts to the
\* sessions endpoint: its single request is the listing request, with the
\* Basic header.
C11_LayoutsOnlyAuthenticate ==
    /\ task.op = "get_layouts" /\ IsSome(wire) =>
          IF task.pc = "get_layouts:token"
          THEN /\ hist.sent = 1 /\ hist.sessionPosts = 1
               /\ Flying.method = "POST" /\ Flying.url.route = "sessions"
               /\ Flying.auth = BasicHeader
          ELSE /\ hist.sent = 2 /\ hist.sessionPosts = 1
               /\ Flying.method = "GET" /\ Flying.url.route = "layouts"
               /\ IsSome(SessionToken(HeardReply))
               /\ Flying.auth = BearerHeader(Unwrap(SessionToken(HeardReply)))
    /\ task.op = "get_databases" =>
          /\ hist.sent = 1 /\ hist.sessionPosts = 0
          /\ IsSome(wire) =>
                /\ Flying.method = "GET" /\ Flying.url.route = "databases"
                /\ Flying.auth = BasicHeader

\* get_databases has its listing request in flight, with the Basic header
\* and no session.
C11_Witness ==
    /\ task.op = "get_databases" /\ IsSome(wire)
    /\ Flying.url.route = "databases" /\ Flying.auth = BasicHeader
    /\ hist.sent = 1 /\ hist.sessionPosts = 0

\* The database name of the static calls' URLs, encoded.
StaticDatabase == <<"m", "y", "%", "2", "0", "d", "b">>
\* The URL a static call sends to, by its position.
StaticUrl(pc) ==
    [base |-> FmUrl,
     route |-> CASE pc = "get_databases" -> "databases"
                 [] pc = "get_layouts:list" -> "layouts"
                 [] pc = "delete_database:delete" -> "database"
                 [] OTHER -> "sessions",
     database |-> IF pc = "get_databases" THEN None ELSE StaticDatabase,
     table |-> None, id |-> None, range |-> None]

\* The request of a static call is made of its arguments and of the answer
\* to its own session request, and its result of the answer it ended on.
C12_State ==
    task.op \in StaticOps =>
        /\ IsSome(wire) =>
              /\ Flying.client = DefaultClient
              /\ Flying.url = StaticUrl(task.pc)
              /\ Flying.method =
                     CASE task.pc \in {"get_databases", "get_layouts:list"} -> "GET"
                       [] task.pc = "delete_database:delete" -> "DELETE"
                       [] OTHER -> "POST"
              /\ Flying.auth =
                     IF task.pc \in {"get_layouts:list", "delete_database:delete"}
                     THEN BearerHeader(Unwrap(SessionToken(HeardReply)))
                     ELSE BasicHeader
        /\ Done =>
              ret = CASE task.pc = "get_databases" -> get_databases_result(HeardReply)
                      [] task.pc = "get_layouts:list" -> get_layouts_result(HeardReply)
                      [] task.pc = "delete_database:delete" ->
                             delete_database_result(HeardReply)
                      [] OTHER -> get_session_token_result(HeardReply)
\* No step of a static call changes a handle or a token cell.
C12_Step ==
    (task.op \in StaticOps \/ task'.op \in StaticOps) /\ task' # task =>
        cells' = cells /\ handles' = handles

\* C12 Discovery calls are independent of handles.  The requests of
\* get_databases, get_layouts and delete_database are built from the call's
\* arguments and its own session answer, their results from the answer they
\* end on, never from a handle's token; and none of their steps changes a
\* handle or its token.
C12_StaticCallsIgnoreHandles == []C12_State /\ [][C12_Step]_vars

\* get_layouts lists with a token of its own while a handle holds another
\* token that the upstream accepts.
C12_Witness ==
    /\ task.pc = "get_layouts:list" /\ IsSome(wire)
    /\ handles["h1"].live /\ Open(Unwrap(cells["h1"]))
    /\ Flying.auth # BearerHeader(Unwrap(cells["h1"]))
    /\ Flying.auth = BearerHeader(Unwrap(SessionToken(HeardReply)))

\* C13 Single dispatch path, as stated: every request other than a session
\* request was sent by authenticated_request, with the handle's token as
\* bearer and the handle's client.
C13_SingleDispatchPath ==
    IsSome(wire) /\ Flying.url.route # "sessions" =>
        /\ task.h \in HandleIds
        /\ hist.invoked = hist.sent
        /\ Flying.auth = BearerHeader(HandleToken)
        /\ Flying.client = HandleClient

\* C13 as the code has it.  Every request of the eleven methods of a handle
\* is sent by authenticated_request, with the stored token as bearer and the
\* handle's client, the one that accepts invalid certificates.  The static
\* calls never invoke authenticated_request: get_databases, get_layouts and
\* delete_database send their requests themselves with a Client::new() of
\* their own, get_databases with the Basic header, the other two with the
\* token of their own session.
C13_DispatchPaths ==
    IsSome(wire) =>
        CASE task.op \in HandleOps ->
                 /\ hist.invoked = hist.sent
                 /\ Flying.url.route # "sessions"
                 /\ Flying.auth = BearerHeader(HandleToken)
                 /\ Flying.client = HandleClient
          [] task.op = "new" ->
                 /\ hist.invoked = 0
                 /\ Flying.url.route = "sessions"
                 /\ Flying.client = HandleClient
          [] OTHER ->
                 /\ task.op \in StaticOps
                 /\ hist.invoked = 0
                 /\ Flying.client = DefaultClient
                 /\ Flying.url.route # "sessions" =>
                       Flying.auth = IF task.op = "get_databases" THEN BasicHeader
                                     ELSE BearerHeader(Unwrap(SessionToken(HeardReply)))

\* The delete request of delete_database, sent without authenticated_request
\* by a client that validates certificates.
C13_Witness ==
    /\ task.pc = "delete_database:delete" /\ IsSome(wire)
    /\ Flying.method = "DELETE" /\ Flying.url.route = "database"
    /\ Flying.client = DefaultClient
    /\ hist.invoked = 0 /\ hist.sent = 2

\* The base URL of the i-th request of the call in progress, and the value
\* FM_URL had when that request went out.
BaseOf(i) == hist.bases[i][1]
FmUrlAt(i) == hist.bases[i][2]

\* C14 Base URL is read per request and never cached, as stated: every
\* request of a call goes to the value FM_URL has when the request is made.
C14_BaseReadPerRequest ==
    \A i \in 1..Len(hist.bases) : BaseOf(i) = FmUrlAt(i)

\* C14 as the code has it.  Every request of new, of get_databases and of
\* the methods of a handle, and every session request, goes to the value
\* FM_URL has when it is sent (the empty string when unset); nothing of the
\* base URL is kept in the handle.  get_layouts and delete_database build
\* the URL of their second request before they ask for the token, so that
\* request goes to the value FM_URL had when the call began, which is where
\* their session request went.
C14_BaseReadWhenUrlIsBuilt ==
    /\ Len(hist.bases) = hist.sent
    /\ \A i \in 1..Len(hist.bases) :
          /\ BaseOf(i) \in FmUrls
          /\ BaseOf(i) = IF task.op \in {"get_layouts", "delete_database"} /\ i = 2
                         THEN FmUrlAt(1)
                         ELSE FmUrlAt(i)
    /\ IsSome(wire) => Flying.url.base = BaseOf(hist.sent)

\* The two requests of one get_all_records went to different base URLs.
C14_Witness ==
    /\ task.op = "get_all_records" /\ task.pc = "get_all_records:records"
    /\ IsSome(wire)
    /\ hist.bases = <<<<FmUrl, FmUrl>>, <<"", "">>>>
    /\ Flying.url.base = "" /\ Flying.auth = BearerHeader(HandleToken)

\* The listing request of get_layouts went to the old base URL after FM_URL
\* was removed.
C14_LayoutsKeepBase ==
    /\ task.pc = "get_layouts:list" /\ IsSome(wire)
    /\ fmUrl = "" /\ Flying.url.base = FmUrl

\* Every live handle points to the cell of the handle it was cloned from,
\* which holds a token; a Mutex is held by at most one task, the one that is
\* copying the token of that cell; a token is only copied under the guard;
\* tasks that copied the token of one cell copied the same value.
C15_State ==
    /\ \A h \in Live :
          LET c == handles[h].cell
          IN  handles[c].live /\ handles[c].cell = c /\ IsSome(cells[c])
    /\ \A x \in HandleIds :
          locks[x] # "free" =>
              /\ locks[x] \in CallerIds
              /\ callers[locks[x]].pc = "clone" /\ CellOf(locks[x]) = x
    /\ \A c \in CallerIds :
          /\ callers[c].pc = "clone" => locks[CellOf(c)] = c
          /\ callers[c].pc = "read" =>
                /\ callers[c].guarded
                /\ IsSome(callers[c].token)
                /\ callers[c].token = cells[CellOf(c)]
    /\ \A c, d \in CallerIds :
          /\ c # d /\ callers[c].pc = "clone" /\ callers[d].pc = "clone" =>
                CellOf(c) # CellOf(d)
          /\ callers[c].pc = "read" /\ callers[d].pc = "read" /\ CellOf(c) = CellOf(d) =>
                callers[c].token = callers[d].token
\* A handle that appears without a construction is a copy of a live handle,
\* cell included.
C15_Step ==
    \A h \in HandleIds :
        ~handles[h].live /\ handles'[h].live /\ task' = task =>
            \E k \in Live : handles'[h] = handles[k]

\* C15 Shared token under a lock.  Clones share the token cell of the
\* handle they were cloned from; every read of it happens while the reader
\* holds the Mutex of the cell; at most one task holds that Mutex at a time;
\* and concurrent calls on a handle and its clones read the same token.
C15_SharedTokenUnderLock == []C15_State /\ [][C15_Step]_vars

\* One task has read the token through the handle while another holds the
\* Mutex of the same cell through a clone.
C15_Witness ==
    /\ handles["h2"].live /\ handles["h2"].cell = "h1"
    /\ callers["c1"].h = "h1" /\ callers["c1"].pc = "read"
    /\ callers["c2"].h = "h2" /\ callers["c2"].pc = "clone"
    /\ locks["h1"] = "c2"
    /\ callers["c1"].token = cells["h1"]

\* The characters a URL path segment cannot hold as they are.
ReservedChars == {"/", "?", "#", "&"}
HexChars == {"0", "1", "2", "3", "4", "5", "6", "7", "8", "9",
             "a", "b", "c", "d", "e", "f", "A", "B", "C", "D", "E", "F"}
Chars(s) == {s[i] : i \in 1..Len(s)}
\* Every "%" of s begins an escape.
PercentsEscape(s) ==
    \A i \in 1..Len(s) :
        s[i] = "%" => i + 2 <= Len(s) /\ s[i + 1] \in HexChars /\ s[i + 2] \in HexChars
UrlSafe(s) == Chars(s) \cap (ReservedChars \cup {" "}) = {} /\ PercentsEscape(s)
\* o is s with "%20" in the place of each space and every other character,
\* reserved or not, as it was.
SpacesBefore(s, i) == Cardinality({j \in 1..(i - 1) : s[j] = " "})
IsSpaceEscape(s, o) ==
    /\ Len(o) = Len(s) + 2 * SpacesBefore(s, Len(s) + 1)
    /\ \A i \in 1..Len(s) :
          LET p == i + 2 * SpacesBefore(s, i)
          IN  IF s[i] = " "
              THEN o[p] = "%" /\ o[p + 1] = "2" /\ o[p + 2] = "0"
              ELSE o[p] = s[i]
\* A request of a call on a handle is in flight.
HandleRequest == ~Done /\ IsSome(wire) /\ task.op \in HandleOps

\* C16 Names in URLs are URL-encoded, as stated: the names a handle stores
\* and the names in the path of every request have no space and no reserved
\* character unescaped.
C16_NamesUrlEncoded ==
    /\ \A h \in Live : UrlSafe(handles[h].database) /\ UrlSafe(handles[h].table)
    /\ IsSome(wire) => UrlSafe(Flying.url.database)
    /\ HandleRequest => UrlSafe(Flying.url.table)

\* What encode_parameter does instead.  The names a handle stores are the names given
\* to Filemaker::new with each space replaced by "%20" and every other
\* character ('/', '?', '#', '%', '&' included) as it was given; no space is
\* left in them; the session request of the construction carries the database
\* name in that same form; and every request of a call on the handle carries
\* the stored names.
OnlySpacesAreEncoded ==
    /\ \A h \in Live : " " \notin Chars(handles[h].database) \cup Chars(handles[h].table)
    /\ task.op = "new" /\ ~Done /\ IsSome(wire) =>
          IsSpaceEscape(task.database, Flying.url.database)
    /\ task.op = "new" /\ Done /\ ret.ok =>
          /\ IsSpaceEscape(task.database, handles[task.h].database)
          /\ IsSpaceEscape(task.tbl, handles[task.h].table)
    /\ HandleRequest =>
          /\ Flying.url.database = handles[task.h].database
          /\ Flying.url.table = handles[task.h].table

\* A handle constructed for a database name with a space and a slash holds
\* the space escaped and the slash as given.
SpaceEscapedSlashKept ==
    /\ task.op = "new" /\ Done /\ ret.ok
    /\ task.database = <<" ", "/">>
    /\ handles[task.h].database = <<"%", "2", "0", "/">>

\* A request of a call on a handle carries a table name with a bare "?".
ReservedInPath ==
    /\ HandleRequest
    /\ Flying.url.table = <<"?">>

\* The count the last answer carries, if it carries one.
CountHeard ==
    IF IsSome(hist.heard) /\ HeardReply.kind = "json"
    THEN AsU64(GetPath(Some(HeardReply.body),
                       <<"response", "dataInfo", "totalRecordCount">>))
    ELSE None

\* C17 get_all_records request sequence.  The first request is the GET of
\* the records without a range and nothing has been heard yet; the second,
\* the last, is the GET of the range from 1 with the count as limit, in flight
\* only after an answer that carries a count, with exactly that count, 0
\* included; a call that ended at its first request ended on an answer
\* without a count, with Err.
C17_RequestSequence ==
    task.op = "get_all_records" =>
        /\ task.pc \in {"get_all_records:count", "get_all_records:records"}
        /\ task.pc = "get_all_records:count" =>
              /\ hist.sent = 1
              /\ ~Done =>
                    /\ hist.heard = None
                    /\ Flying.method = "GET" /\ Flying.url.route = "records"
                    /\ Flying.url.range = None /\ Flying.url.id = None
              /\ Done => ~ret.ok /\ CountHeard = None
        /\ task.pc = "get_all_records:records" =>
              /\ hist.sent = 2
              /\ ~Done =>
                    /\ CountHeard = Some(task.n)
                    /\ Flying.method = "GET" /\ Flying.url.route = "records"
                    /\ Flying.url.range = Some(<<1, task.n>>) /\ Flying.url.id = None

\* The count was 0 and the second request is in flight with limit 0.
C17_Witness ==
    /\ task.op = "get_all_records" /\ ~Done
    /\ task.pc = "get_all_records:records"
    /\ CountHeard = Some(0)
    /\ Flying.url.range = Some(<<1, 0>>)

\* The count request failed and the call ended after one request.
C17_CountFailed ==
    /\ task.op = "get_all_records" /\ Done /\ ~ret.ok
    /\ task.pc = "get_all_records:count" /\ hist.sent = 1

\* C18 clear_database on an empty table.  A clear_database whose count
\* request was answered with a count of 0 has returned Ok(()) with that one
\* request sent, no fetch and no delete among them; one whose count request
\* failed has returned Err, again with that one request sent; and a call that
\* went past its count request had heard a count other than 0.
C18_EmptyTable ==
    task.op = "clear_database" =>
        /\ task.pc = "clear_database:count" =>
              /\ hist.sent = 1 /\ hist.dels = <<>>
              /\ ~Done => hist.heard = None /\ Flying.url.range = None
              /\ Done /\ CountHeard = Some(0) => ret = Ok(Null)
              /\ Done /\ CountHeard = None => ~ret.ok
              /\ Done => CountHeard \in {None, Some(0)}
        /\ task.pc # "clear_database:count" => hist.sent >= 2 /\ task.n > 0
        /\ ~Done /\ task.pc = "clear_database:records" =>
              CountHeard = Some(task.n)

\* The count was 0 and clear_database returned Ok(()) after one request.
C18_Witness ==
    /\ task.op = "clear_database" /\ Done /\ ret = Ok(Null)
    /\ task.pc = "clear_database:count"
    /\ CountHeard = Some(0)
    /\ hist.sent = 1 /\ hist.dels = <<>>

\* The count request failed and clear_database returned Err after one
\* request.
C18_CountFailed ==
    /\ task.op = "clear_database" /\ Done /\ ~ret.ok
    /\ task.pc = "clear_database:count"
    /\ hist.sent = 1 /\ hist.dels = <<>>

\* The record id the last answer carries: its response.recordId when that
\* is a string of digits.
PostedId ==
    LET id == IF IsSome(hist.heard) /\ HeardReply.kind = "json"
              THEN AsStr(GetPath(Some(HeardReply.body), <<"response", "recordId">>))
              ELSE None
    IN  IF IsSome(id) THEN ParseU64(Unwrap(id)) ELSE None
\* The first record of the last answer's response.data.
FetchedRecord ==
    LET data == IF IsSome(hist.heard) /\ HeardReply.kind = "json"
                THEN AsArray(GetPath(Some(HeardReply.body), <<"response", "data">>))
                ELSE None
    IN  IF IsSome(data) /\ Unwrap(data) # <<>> THEN Some(Head(Unwrap(data))) ELSE None

C19_UnparseableId ==
    /\ task.op = "add_record" /\ Done /\ ret.ok
    /\ task.pc = "add_record:post" /\ hist.sent = 1
    /\ ret.val.v.success = JBool(FALSE)
    /\ GetPath(Some(ret.val.v.result), <<"response", "recordId">>) = Some(Str(<<"x">>))

\* The last answer is JSON whose response.data is an empty array.
EmptyData ==
    /\ IsSome(hist.heard) /\ HeardReply.kind = "json"
    /\ AsArray(GetPath(Some(HeardReply.body), <<"response", "data">>)) = Some(<<>>)
\* An add_record whose fetch failed returned Err.
C20_State ==
    Done /\ task.op = "add_record" /\ task.pc = "add_record:get"
         /\ (Faulted \/ Lacks \/ EmptyData) => ~ret.ok
\* The answer to add_record's POST that carries a usable record id comes
\* with a record of that id that was not in the table before, whatever the
\* calls before returned; the step that ends add_record after its fetch
\* leaves the table as it is.
C20_Step ==
    task.op = "add_record" /\ ~Done =>
        /\ task.pc = "add_record:post" /\ task'.pc = "add_record:get" =>
              /\ ~Holds(table, task'.n) /\ Holds(table', task'.n)
              /\ InTable(table) \subseteq InTable(table')
              /\ Len(table') = Len(table) + 1
        /\ task.pc = "add_record:get" /\ task'.done => table' = table

\* C20 add_record can fail after its write took effect.  The POST's
\* answer with a record id comes with the new record in the table; when the
\* fetch that follows fails (no answer, an answer without response.data, an
\* empty data array) add_record returns Err and the record stays, so Err
\* does not tell that the table is as it was, and the POST of a repeated call
\* adds one more record.
C20_FailsAfterWrite == []C20_State /\ [][C20_Step]_vars

\* add_record returned Err after a failed fetch and the record its POST
\* created is in the table.
C20_Witness ==
    /\ Done /\ task.op = "add_record" /\ ~ret.ok
    /\ task.pc = "add_record:get" /\ hist.sent = 2
    /\ Faulted
    /\ Holds(table, task.n)

\* The same with an answer whose data array is empty.
C20_EmptyDataWitness ==
    /\ Done /\ task.op = "add_record" /\ ~ret.ok
    /\ task.pc = "add_record:get" /\ EmptyData
    /\ Holds(table, task.n)

\* A later add_record got a second record id while the first record is
\* still in the table.
C20_SecondRecord ==
    /\ task.op = "add_record" /\ task.pc = "add_record:get"
    /\ task.n = 2 /\ Holds(table, 1) /\ Holds(table, 2)

\* The last answer is JSON whose top level is an object.
ObjectHeard ==
    IsSome(hist.heard) /\ HeardReply.kind = "json" /\ HeardReply.body.t = "obj"

C21_NotAnObject ==
    /\ Done /\ task.op = "delete_record" /\ ~ret.ok
    /\ HeardReply.kind = "json" /\ HeardReply.body = Num(0)

\* The body of the request in flight.
BodySent == Unwrap(Flying.body)

\* C22 search request body.  The body of the request of search is an
\* object with exactly the keys "query" and "sort"; "query" is the list of
\* queries given, in the order given; "sort" is a list with one entry for
\* each sort field given, in the order given, each {fieldName: the field,
\* sortOrder: "ascend" when ascending, else "descend"}, and is the empty list
\* when no sort field is given.
C22_SearchBody ==
    task.op = "search" /\ ~Done =>
        LET q == task.args.query
            s == task.args.sort
            order == IF task.args.ascending
                     THEN <<"a", "s", "c", "e", "n", "d">>
                     ELSE <<"d", "e", "s", "c", "e", "n", "d">>
        IN  /\ Flying.method = "POST" /\ Flying.url.route = "_find"
            /\ IsSome(Flying.body) /\ BodySent.t = "obj"
            /\ DOMAIN BodySent.v = {"query", "sort"}
            /\ BodySent.v.query.t = "arr" /\ BodySent.v.query.v = q
            /\ BodySent.v.sort.t = "arr"
            /\ Len(BodySent.v.sort.v) = Len(s)
            /\ \A i \in 1..Len(s) :
                  LET entry == BodySent.v.sort.v[i]
                  IN  /\ entry.t = "obj"
                      /\ DOMAIN entry.v = {"fieldName", "sortOrder"}
                      /\ entry.v.fieldName = [t |-> "str", v |-> s[i]]
                      /\ entry.v.sortOrder = [t |-> "str", v |-> order]

\* A search for two queries sorted by two fields, descending, is in flight.
C22_Witness ==
    /\ task.op = "search" /\ ~Done /\ IsSome(wire)
    /\ Len(task.args.query) = 2 /\ task.args.query[1] # task.args.query[2]
    /\ Len(task.args.sort) = 2 /\ task.args.sort[1] # task.args.sort[2]
    /\ ~task.args.ascending
    /\ BodySent.v.sort.v[2].v.fieldName.v = task.args.sort[2]

\* A search without sort fields is in flight with an empty sort list.
C22_EmptySort ==
    /\ task.op = "search" /\ ~Done /\ IsSome(wire)
    /\ task.args.sort = <<>>
    /\ BodySent.v.sort = [t |-> "arr", v |-> <<>>]

\* The characters of a field name begin with "g_".
GlobalName(c) == Len(c) >= 2 /\ c[1] = "g" /\ c[2] = "_"
\* names holds, each once and nothing else, the names of the keys of the
\* record's fieldData that do not begin with "g_"; it is empty when the
\* record has no fieldData or a fieldData that is no object.
RowNamesOf(record, names) ==
    LET isData == /\ record.t = "obj" /\ "fieldData" \in DOMAIN record.v
                  /\ record.v.fieldData.t = "obj"
        wanted == IF isData
                  THEN {[t |-> "str", v |-> FieldNameChars(k)] :
                            k \in {x \in DOMAIN record.v.fieldData.v :
                                       ~GlobalName(FieldNameChars(x))}}
                  ELSE {}
    IN  /\ {names[i] : i \in 1..Len(names)} = wanted
        /\ Len(names) = Cardinality(wanted)
\* The records of the last answer's response.data, when it is an array.
DataHeard ==
    IF IsSome(hist.heard) /\ HeardReply.kind = "json"
    THEN AsArray(GetPath(Some(HeardReply.body), <<"response", "data">>))
    ELSE None

\* C23 get_row_names_by_example filters global fields.  The result of
\* get_row_names_by_example is the list of the keys of the record's
\* fieldData that do not begin with "g_", each once and no other name, and
\* the empty list for a record without fieldData or with a fieldData that is
\* no object; get_row_names returns that list for the first record of the
\* answer and Ok of the empty list when the answer holds no record.
C23_RowNames ==
    /\ Done /\ task.op = "get_row_names_by_example" =>
          /\ ret.ok /\ ret.val.t = "arr"
          /\ RowNamesOf(task.args.record, ret.val.v)
          /\ hist.sent = 0
    /\ Done /\ task.op = "get_row_names" /\ IsSome(DataHeard) =>
          /\ ret.ok /\ ret.val.t = "arr"
          /\ IF Unwrap(DataHeard) = <<>> THEN ret.val.v = <<>>
             ELSE RowNamesOf(Head(Unwrap(DataHeard)), ret.val.v)

\* A record with global fields, a field "g" and a field "ag_": the result
\* has the names that do not begin with "g_" and only those.
C23_Witness ==
    /\ Done /\ task.op = "get_row_names_by_example"
    /\ task.args.record = Obj([fieldData |-> Obj([k \in ExampleKeys |-> Str(<<"1">>)])])
    /\ Len(ret.val.v) = 3
    /\ Str(<<"g">>) \in {ret.val.v[i] : i \in 1..3}

\* The table has no records: get_row_names returned Ok of the empty list.
C23_NoRecords ==
    /\ Done /\ task.op = "get_row_names" /\ table = <<>>
    /\ HeardReply.kind = "json" /\ HeardReply.status = 200
    /\ DataHeard = Some(<<>>)
    /\ ret = Ok(Arr(<<>>))

\* A record whose fieldData is no object gives the empty list.
C23_NoFieldData ==
    /\ Done /\ task.op = "get_row_names_by_example"
    /\ task.args.record = Obj([fieldData |-> Num(1)])
    /\ ret = Ok(Arr(<<>>))

C25_State ==
    /\ \A c \in CallerIds, x \in HandleIds :
          locks[x] = c => callers[c].pc = "clone" /\ CellOf(c) = x
    /\ \A c \in CallerIds :
          callers[c].pc \in {"read", "wait"} => locks[CellOf(c)] # c
    /\ \A c, d \in CallerIds :
          callers[c].pc = "lock" /\ callers[d].pc = "wait" => locks[CellOf(c)] # d

\* C25 The token lock is never held across a network wait.  The lock is
\* released before the request is sent; and with the Mutex handing itself to
\* its waiters in turn, every call that waits for the lock gets it, whether
\* or not the answers of the other calls ever arrive.
C25_LockNotHeldAcrossWait ==
    /\ []C25_State
    /\ \A c \in CallerIds : (callers[c].pc = "lock") ~> (callers[c].pc = "clone")

\* One call waits for the network through the handle while another,
\* through a clone that shares the cell, holds the lock.
C25_Witness ==
    /\ handles["h2"].live /\ handles["h2"].cell = "h1"
    /\ callers["c1"].h = "h1" /\ callers["c1"].pc = "wait"
    /\ callers["c2"].h = "h2" /\ callers["c2"].pc = "clone"
    /\ locks["h1"] = "c2"

\* Two calls on a handle and its clone wait for the network at once.
C25_BothInFlight ==
    /\ handles["h2"].live /\ handles["h2"].cell = "h1"
    /\ callers["c1"].h = "h1" /\ callers["c1"].pc = "wait"
    /\ callers["c2"].h = "h2" /\ callers["c2"].pc = "wait"

\* The sessions this client has opened; it has closed none of them.
Opened == {t \in Tokens : sessions[t] # "unissued"}
SessionPcs == {"new", "get_layouts:token", "delete_database:token"}
\* No request is a request to close a session: the sessions endpoint is
\* only posted to, and a DELETE goes to a record or to a database.
C26_State ==
    IsSome(wire) =>
        /\ Flying.url.route = "sessions" => Flying.method = "POST"
        /\ Flying.method = "DELETE" => Flying.url.route \in {"record", "database"}
\* No step takes a session out of the opened ones.  The step in which a
\* session request is answered with a token of the upstream opens exactly one
\* session, a new one, and the call goes on with its token; every other step,
\* the drop of a handle among them, leaves the opened sessions as they are,
\* and the drop sends nothing.
C26_Step ==
    LET answered == task.pc \in SessionPcs /\ ~Done /\ task' # task
        token == SessionToken(Unwrap(hist'.heard))
        issued == /\ Unwrap(hist'.heard).kind = "json"
                  /\ Unwrap(hist'.heard).status = 200
                  /\ IsSome(token) /\ Unwrap(token) \in Tokens
    IN  /\ Opened \subseteq Opened'
        /\ answered /\ issued =>
              /\ Unwrap(token) \notin Opened
              /\ Opened' = Opened \cup {Unwrap(token)}
              /\ sessions'[Unwrap(token)] = "open"
              /\ task.pc = "new" => ret'.ok /\ cells'[task.h] = token
              /\ task.pc = "get_layouts:token" => task'.pc = "get_layouts:list"
              /\ task.pc = "delete_database:token" => task'.pc = "delete_database:delete"
        /\ ~(answered /\ issued) => Opened' = Opened
        /\ (\E h \in HandleIds : handles[h].live /\ ~handles'[h].live) =>
              sessions' = sessions /\ wire' = wire

\* C26 Sessions are opened and never closed.  Every Filemaker::new,
\* get_layouts and delete_database whose session request the upstream
\* answers with a token opens one new session; no request of the library
\* closes a session and the drop of a handle sends nothing; so the set of
\* sessions the client has opened never loses a member and gains one with
\* every such call.
C26_SessionsNeverClosed == []C26_State /\ [][C26_Step]_vars

\* Two calls of get_layouts have each opened a session and returned Ok;
\* no handle exists and both sessions are still open.
C26_Witness ==
    /\ Done /\ task.op = "get_layouts" /\ ret.ok
    /\ \A h \in HandleIds : ~handles[h].live /\ ~handles[h].dropped
    /\ \A t \in Tokens : sessions[t] = "open"

\* The only handle was dropped, its token freed, and its session is still
\* open upstream.
C26_DroppedHandle ==
    /\ Idle /\ Live = {} /\ handles["h1"].dropped
    /\ \A c \in HandleIds : cells[c] = None
    /\ Cardinality(Opened) = 1
    /\ \E t \in Tokens : sessions[t] = "open"

====
